---- MODULE Spec2Model ----
(***************************************************************************)
(* Power Interpreter execution engine.                                     *)
(*                                                                         *)
(*   KernelManager  (app/engine/kernel_manager.py): the table of          *)
(*                  persistent namespaces, one per session id, behind one  *)
(*                  threading.Lock, with idle expiry and an LRU capacity   *)
(*                  ceiling.                                               *)
(*   SandboxExecutor.execute (app/engine/executor.py): one Execute call,   *)
(*                  which builds its namespace itself and runs the code    *)
(*                  on the default thread pool.                            *)
(*                                                                         *)
(* Callers are threads.  A call that runs under the table lock is split    *)
(* at the places where it reads the clock or the table, so that what the   *)
(* lock buys is visible; the clock may advance between any two steps.      *)
(***************************************************************************)
EXTENDS Integers, Sequences, FiniteSets, TLC

\* ------------------------------------------------------------ bounds

\* Largest value of the clock (time.time(), counted in idle timeouts).
MaxTime == 2
\* Number of namespace objects (dicts) that are ever built when only the
\* KernelManager is exercised (SpecKernel).
MaxCtx == 3
\* Number of namespace objects that are ever built when KernelManager calls
\* and Execute calls are interleaved (Spec).
MaxCalls == 2
\* Largest capacity (max_kernels) a KernelManager is constructed with.
MaxKernels == 2
\* Largest number of lines of a submission.
MaxLines == 3
\* Largest number of components of a file path given to open().
MaxPath == 3
\* Largest number of jobs submitted.
MaxJobs == 3
\* Largest number of jobs submitted when the read-only routes are polled too.
MaxPolledJobs == 2
\* Largest timeout a request asks for, in seconds.
MaxTimeout == 61
\* Largest number of job records ever stored while the sweep is followed.
MaxRecords == 2
\* Largest number of writes the code of one execution makes to one stream.
MaxWrites == 1
\* Number of POST /mcp/sse requests that are followed.
MaxRequests == 2

\* ------------------------------------------------------------ values

\* KernelManager.idle_timeout (idle_timeout_seconds = 1800): the unit of the clock.
idle_timeout == 1

\* settings.MAX_OUTPUT_SIZE, in units of one printed line.
MAX_OUTPUT_SIZE == 1

\* settings.MAX_CONCURRENT_JOBS: the size of the worker pool.
MAX_CONCURRENT_JOBS == 2

\* settings.JOB_CLEANUP_HOURS (24 hours), in units of the clock.
JOB_CLEANUP_HOURS == 1

\* settings.MAX_EXECUTION_TIME, in seconds.
MAX_EXECUTION_TIME == 300

\* execute_code: the default and the ceiling of a synchronous timeout, in
\* seconds.
SYNC_DEFAULT_TIMEOUT == 30
SYNC_MAX_TIMEOUT == 60

Workers == 1..MAX_CONCURRENT_JOBS

Threads == {"t1", "t2"}
SessionIds == {"a", "b", "c"}
\* The session ids Execute is called with.
ExecSessionIds == {"a", "b"}
\* Names user code can bind or read.
Vars == {"x"}
\* The submitted programs: `x = 1 + 1` (bind) and `print(x)` (read).
Codes == [kind : {"bind", "read"}, var : Vars]

None == "None"
\* The id of no dict.
NoCtx == Cardinality({})
CtxIds == 1..MaxCtx

VARIABLES
    now,            \* time.time()
    max_kernels,    \* KernelManager.max_kernels
    sessions,       \* KernelManager._sessions: the dict, in insertion order
    lock,           \* KernelManager._lock: the thread holding it, or None
    heap,           \* the namespace objects: dict id -> bindings made by user code
    nextCtx,        \* the next dict id (object identity)
    pc,             \* where each thread is
    call,           \* the call each thread is in, with its arguments and locals
    returned,       \* the value most recently returned to a caller
    removed,        \* history: the dicts that have been deleted from the table
    \* one call of SandboxExecutor.execute, step by step
    rpc,            \* where the call is
    submission,     \* argument `code`: the submitted lines
    injected,       \* argument `context`: the keys of the variables to inject
    sandbox_globals,\* the namespace built for the call
    processed,      \* processed_code: the lines after _preprocess_code
    worker,         \* the pool thread that runs _execute
    stdout_capture, \* what the run has printed so far
    result,         \* the call's ExecutionResult
    escaped,        \* the exception that left execute, or None
    response,       \* the body a route answers with, or None
    \* one call of the open() the sandbox gives to user code
    dirs,           \* the directories that exist
    files,          \* the regular files that exist
    request,        \* the call's session directory and arguments
    outcome,        \* how the call ended
    \* one call of execute_with_memory_limit
    guard_pc,       \* where the call is
    program,        \* argument `code`: what the script does when run
    script_file,    \* whether the file at script_path exists
    proc,           \* the subprocess
    timed_out,      \* local timed_out
    deadline_alive, \* history: the subprocess was running when the timeout elapsed
    guard_result,   \* the dict returned
    guard_escaped,  \* the exception that left the function, or None
    \* the job manager behind the job routes
    jobs,           \* the job records, by job id
    queue,          \* the ids of the queued jobs, oldest first
    workers,        \* the job each worker of the pool is running, or NoJob
    job_response,   \* the most recent response of a job route
    \* the timeout of one POST /execute request
    limit_pc,       \* where the request is
    requested,      \* the `timeout` field of the request body
    sync_timeout,   \* local `timeout` of execute_code
    wait_timeout,   \* local `timeout` of SandboxExecutor.execute
    \* the retention sweep
    cleanup_pc,     \* where the task running _periodic_cleanup is
    records,        \* the stored job records, oldest first
    submitted,      \* history: the number of records ever stored
    cleanup_logged, \* history: "Cleanup error" has been logged
    \* the output capture of concurrent executions
    sys_streams,    \* sys.stdout and sys.stderr of the process
    old_targets,    \* what each redirect_stdout / redirect_stderr saved
    captures,       \* stdout_capture and stderr_capture of each execution
    console,        \* what reached the streams the process started with
    written,        \* history: how many writes each execution's code made
    cap_pc,         \* where each execution is
    cap_result,     \* result.stdout and result.stderr of each execution
    \* the POST /mcp/sse proxy
    cached_session_id, \* _cached_session_id: {} for None, or {id}
    session_lock,   \* the requests holding _session_lock
    req_pc,         \* where each request of proxy_mcp_sse_post is
    req_sid,        \* session_id / new_session_id of each request
    req_status,     \* status code of the response each request holds
    forwards,       \* history: POSTs each request sent upstream
    first_sid,      \* history: the id of each request's first POST
    first_how,      \* history: how each request got its first id
    opened,         \* history: upstream SSE sessions opened so far
    invalidations   \* history: calls of _invalidate_session so far

kernelVars == <<now, max_kernels, sessions, lock, heap, nextCtx,
                pc, call, returned, removed>>

runVars == <<rpc, submission, injected, sandbox_globals, processed, worker,
             stdout_capture, result, escaped>>

routeVars == <<response>>

fileVars == <<dirs, files, request, outcome>>

guardVars == <<guard_pc, program, script_file, proc, timed_out, deadline_alive,
               guard_result, guard_escaped>>

jobVars == <<jobs, queue, workers, job_response>>

limitVars == <<limit_pc, requested, sync_timeout, wait_timeout>>

sweepVars == <<cleanup_pc, records, submitted, cleanup_logged>>

captureVars == <<sys_streams, old_targets, captures, console, written,
                 cap_pc, cap_result>>

proxyVars == <<cached_session_id, session_lock, req_pc, req_sid, req_status,
               forwards, first_sid, first_how, opened, invalidations>>

vars == <<kernelVars, runVars, routeVars, fileVars, guardVars, jobVars, limitVars, sweepVars, captureVars, proxyVars>>

\* ------------------------------------------------------------ KernelSession

\* KernelSession(session_id, sandbox_globals, session_dir): last_activity is
\* stamped by the default factory and execution_count starts at 0.
KernelSession(sid, globals, t) ==
    [session_id |-> sid, sandbox_globals |-> globals,
     last_activity |-> t, execution_count |-> 0]

\* A touch that leaves execution_count as it is.
touch_no_count(s, t) ==
    [s EXCEPT !.last_activity = t]

\* KernelSession.touch
touch(s, t) ==
    [s EXCEPT !.last_activity = t, !.execution_count = @ + 1]

\* KernelSession.idle_seconds
idle_seconds(s, t) == t - s.last_activity

\* ------------------------------------------------------------ the dict

Ids(ss) == {ss[i].session_id : i \in 1..Len(ss)}

Has(ss, sid) == sid \in Ids(ss)

IndexOf(ss, sid) == CHOOSE i \in 1..Len(ss) : ss[i].session_id = sid

Get(ss, sid) == ss[IndexOf(ss, sid)]

RemoveAt(ss, i) == SubSeq(ss, 1, i - 1) \o SubSeq(ss, i + 1, Len(ss))

\* del self._sessions[sid]
Del(ss, sid) == SelectSeq(ss, LAMBDA s : s.session_id # sid)

\* self._sessions[sid] = session: an existing key keeps its place.
DictSet(ss, s) ==
    IF Has(ss, s.session_id)
    THEN [ss EXCEPT ![IndexOf(ss, s.session_id)] = s]
    ELSE Append(ss, s)

\* ------------------------------------------------------------ KernelManager helpers

\* The test of _cleanup_expired.
expired(s, t, timeout) == idle_seconds(s, t) > timeout

\* A sweep that removes nothing.
cleanup_nothing(ss, t, timeout) == ss

\* KernelManager._cleanup_expired
cleanup_expired(ss, t, timeout) ==
    SelectSeq(ss, LAMBDA s : ~expired(s, t, timeout))

\* min(keys, key=last_activity): the first key with the least value.
OldestIndex(ss) ==
    CHOOSE i \in 1..Len(ss) :
        /\ \A j \in 1..Len(ss) : ss[i].last_activity <= ss[j].last_activity
        /\ \A j \in 1..(i - 1) : ss[j].last_activity > ss[i].last_activity

\* An eviction that removes nothing.
evict_none(ss) == ss

\* An eviction that removes the most recently used session.
evict_newest(ss) ==
    IF ss = <<>> THEN ss
    ELSE RemoveAt(ss, CHOOSE i \in 1..Len(ss) :
            \A j \in 1..Len(ss) : ss[i].last_activity >= ss[j].last_activity)

\* KernelManager._evict_oldest
evict_oldest(ss) ==
    IF ss = <<>> THEN ss ELSE RemoveAt(ss, OldestIndex(ss))

\* ------------------------------------------------------------ the lock

\* A critical section entered without regard to the holder.
LockIgnored(l) == TRUE

\* threading.Lock: `with self._lock` enters only when nobody holds it.
LockFree(l) == l = None

\* A return that does not release the lock.
UnlockLeak(t) == t

\* Leaving the `with self._lock` block (by return) releases the lock.
Unlock(t) == None

\* ------------------------------------------------------------ calls and results

NoCode == [kind |-> None, var |-> None]

\* A thread's call: the operation, its arguments (session_id, the freshly built
\* sandbox_globals, code, context) and, for execute, the names the session's
\* previous call left bound (history, see Persisted).
NoCall ==
    [op |-> None, session_id |-> None, sandbox_globals |-> NoCtx,
     code |-> NoCode, context |-> {}, expect |-> {}]

\* ExecutionResult.__init__
ExecutionResult ==
    [success |-> FALSE, stdout |-> {}, error_message |-> None, variables |-> {}]

\* The value most recently handed back to a caller: get_or_create's dict
\* (flag: the call logged "Kernel evicted"), reset_session's bool (flag),
\* whether get_session_info / list_sessions produced info (flag), execute's
\* ExecutionResult (with the session of the request it answers).
NoReturn ==
    [op |-> None, session_id |-> None, globals |-> NoCtx, flag |-> FALSE,
     result |-> ExecutionResult]

Return(op) == [NoReturn EXCEPT !.op = op]

Range(ss) == {ss[i] : i \in 1..Len(ss)}

Ctxs(ss) == {ss[i].sandbox_globals : i \in 1..Len(ss)}

\* History bookkeeping for a step that takes the table from ss to ss2: the
\* dicts that are no longer stored.
Forget(ss, ss2) == removed' = removed \cup (Ctxs(ss) \ Ctxs(ss2))

\* A name bound in a namespace, with the session whose code bound it.
Binding(v, sid) == [var |-> v, by |-> sid]

Names(bindings) == {b.var : b \in bindings}

\* ------------------------------------------------------------ one call, in steps

\* ExecutionResult.__init__: the fields the steps of one call fill in.  stdout
\* is the set of printed items.
NewResult ==
    [success |-> FALSE, stdout |-> {}, result |-> None, error_message |-> None,
     error_traceback |-> None, variables |-> {}]

\* A namespace: the entries of its '__builtins__' dict, each with the kind of
\* value it is bound to, and the other names bound in it.
NoGlobals == [builtins |-> {}, names |-> {}]

\* No exception.
NoExc == [type |-> None, msg |-> None]

\* The pool thread: not started.
NoWorker == [status |-> "none", next |-> 1, exc |-> NoExc]

\* No response body.
NoResponse == [route |-> None, success |-> FALSE, stdout |-> {}, error_message |-> None]

\* No call of execute is being followed step by step.
RunOff ==
    /\ rpc = "off"
    /\ submission = <<>>
    /\ injected = {}
    /\ sandbox_globals = NoGlobals
    /\ processed = <<>>
    /\ worker = NoWorker
    /\ stdout_capture = {}
    /\ result = NewResult
    /\ escaped = None
    /\ response = NoResponse

\* No arguments.
NoRequest == [session_dir |-> <<>>, absolute |-> FALSE, parts |-> <<>>, mode |-> None]

\* No call of the sandbox's open() is being followed.
FileOff ==
    /\ dirs = {}
    /\ files = {}
    /\ request = NoRequest
    /\ outcome = None

\* No subprocess.
NoProc == [state |-> "none", returncode |-> 0, memory_error |-> FALSE]

\* No dict returned.
NoGuardResult ==
    [success |-> FALSE, return_code |-> 0, timed_out |-> FALSE,
     oom_killed |-> FALSE, stderr |-> None]

\* No call of execute_with_memory_limit is being followed.
GuardOff ==
    /\ guard_pc = "off"
    /\ program = [ending |-> None, unlinks |-> FALSE]
    /\ script_file = FALSE
    /\ proc = NoProc
    /\ timed_out = FALSE
    /\ deadline_alive = FALSE
    /\ guard_result = NoGuardResult
    /\ guard_escaped = None

\* No job.
NoJob == Cardinality({})

\* No response of a job route.
NoJobResponse == [op |-> None, http |-> "none", job_id |-> NoJob, status |-> None, result |-> None]

\* No job has been submitted and every worker is idle.
JobsOff ==
    /\ jobs = <<>>
    /\ queue = <<>>
    /\ workers = [w \in Workers |-> NoJob]
    /\ job_response = NoJobResponse

\* No timeout value.
NoTimeout == [kind |-> "null", value |-> Cardinality({})]

\* No POST /execute request is being followed for its timeout.
LimitOff ==
    /\ limit_pc = "off"
    /\ requested = NoTimeout
    /\ sync_timeout = NoTimeout
    /\ wait_timeout = NoTimeout

\* The application has not started: no cleanup task, no job record.
SweepOff ==
    /\ cleanup_pc = "off"
    /\ records = <<>>
    /\ submitted = Cardinality({})
    /\ cleanup_logged = FALSE

\* The two executions whose output is followed.
Executions == {"a", "b"}

Streams == {"stdout", "stderr"}

\* No execution has started: the process writes to its own streams.
CaptureOff ==
    /\ sys_streams = [s \in Streams |-> "console"]
    /\ old_targets = [e \in Executions |-> [s \in Streams |-> "console"]]
    /\ captures = [e \in Executions |-> [s \in Streams |-> <<>>]]
    /\ console = [s \in Streams |-> <<>>]
    /\ written = [e \in Executions |-> [s \in Streams |-> Cardinality({})]]
    /\ cap_pc = [e \in Executions |-> "idle"]
    /\ cap_result = [e \in Executions |-> [s \in Streams |-> <<>>]]

\* The requests to POST /mcp/sse.
ProxyRequests == 1..MaxRequests

\* The module is loaded: _cached_session_id = None, the lock is free and no
\* request has arrived.
ProxyOff ==
    /\ cached_session_id = {}
    /\ session_lock = {}
    /\ req_pc = [r \in ProxyRequests |-> "idle"]
    /\ req_sid = [r \in ProxyRequests |-> {}]
    /\ req_status = [r \in ProxyRequests |-> Cardinality({})]
    /\ forwards = [r \in ProxyRequests |-> Cardinality({})]
    /\ first_sid = [r \in ProxyRequests |-> {}]
    /\ first_how = [r \in ProxyRequests |-> "none"]
    /\ opened = Cardinality({})
    /\ invalidations = Cardinality({})

\* ------------------------------------------------------------ Init

\* A KernelManager right after construction, with no session.
KernelInit ==
    /\ now = 0
    /\ max_kernels \in 1..MaxKernels
    /\ sessions = <<>>
    /\ lock = None
    /\ heap = [c \in CtxIds |-> {}]
    /\ nextCtx = 1
    /\ pc = [t \in Threads |-> "idle"]
    /\ call = [t \in Threads |-> NoCall]
    /\ returned = NoReturn
    /\ removed = {}

Init == KernelInit /\ RunOff /\ FileOff /\ GuardOff /\ JobsOff /\ LimitOff /\ SweepOff /\ CaptureOff /\ ProxyOff

\* The clock advances.
Tick ==
    /\ now < MaxTime
    /\ now' = now + 1
    /\ UNCHANGED <<max_kernels, sessions, lock, heap, nextCtx,
                   pc, call, returned, removed>>
    /\ UNCHANGED <<runVars, routeVars, fileVars, guardVars, jobVars, limitVars, sweepVars, captureVars, proxyVars>>

\* ------------------------------------------------------------ get_or_create

\* get_or_create up to the capacity check: the caller has built fresh globals
\* and enters `with self._lock`; expired sessions are removed; a session that
\* is (still) in the table is touched and its persisted globals are returned.
\* Otherwise the call goes on, holding the lock.
GocFind(t, sid, limit) ==
    /\ pc[t] = "idle"
    /\ nextCtx <= limit
    /\ LockFree(lock)
    /\ nextCtx' = nextCtx + 1
    /\ LET live == cleanup_expired(sessions, now, idle_timeout) IN
        /\ Forget(sessions, live)
        /\ IF Has(live, sid)
           THEN LET i == IndexOf(live, sid) IN
                /\ sessions' = [live EXCEPT ![i] = touch(live[i], now)]
                /\ returned' = [Return("get_or_create")
                                    EXCEPT !.globals = live[i].sandbox_globals]
                /\ lock' = Unlock(t)
                /\ UNCHANGED <<pc, call>>
           ELSE /\ sessions' = live
                /\ lock' = t
                /\ call' = [call EXCEPT ![t] =
                                [NoCall EXCEPT !.op = "get_or_create",
                                               !.session_id = sid,
                                               !.sandbox_globals = nextCtx]]
                /\ pc' = [pc EXCEPT ![t] = "goc_create"]
                /\ UNCHANGED returned
    /\ UNCHANGED <<now, max_kernels, heap>>
    /\ UNCHANGED <<runVars, routeVars, fileVars, guardVars, jobVars, limitVars, sweepVars, captureVars, proxyVars>>

\* A new session that stores the dict built just before the supplied one.
NewSessionShared(sid, globals, t) ==
    touch(KernelSession(sid, IF globals > 1 THEN globals - 1 ELSE globals, t), t)

\* session = KernelSession(...); session.touch()
NewSession(sid, globals, t) == touch(KernelSession(sid, globals, t), t)

\* The rest of get_or_create: evict the oldest session if the table is at
\* capacity, store the new session, return its globals, release the lock.
GocCreate(t) ==
    /\ pc[t] = "goc_create"
    /\ LET room == IF Len(sessions) >= max_kernels
                   THEN evict_oldest(sessions) ELSE sessions
           s == NewSession(call[t].session_id, call[t].sandbox_globals, now) IN
        /\ sessions' = DictSet(room, s)
        /\ returned' = [Return("get_or_create")
                            EXCEPT !.globals = s.sandbox_globals,
                                   !.flag = Len(room) < Len(sessions)]
        /\ Forget(sessions, sessions')
    /\ lock' = Unlock(t)
    /\ call' = [call EXCEPT ![t] = NoCall]
    /\ pc' = [pc EXCEPT ![t] = "idle"]
    /\ UNCHANGED <<now, max_kernels, heap, nextCtx>>
    /\ UNCHANGED <<runVars, routeVars, fileVars, guardVars, jobVars, limitVars, sweepVars, captureVars, proxyVars>>

\* The caller of get_or_create for session sid runs code in the persisted
\* namespace the call handed it ("Call 1: df = ...; Call 2: df.describe()
\* # df still exists!"): the code binds the name v.
UseContext(sid, v) ==
    /\ Has(sessions, sid)
    /\ Binding(v, sid) \notin heap[Get(sessions, sid).sandbox_globals]
    /\ heap' = [heap EXCEPT ![Get(sessions, sid).sandbox_globals] =
                                @ \cup {Binding(v, sid)}]
    /\ UNCHANGED <<now, max_kernels, sessions, lock, nextCtx,
                   pc, call, returned, removed>>
    /\ UNCHANGED <<runVars, routeVars, fileVars, guardVars, jobVars, limitVars, sweepVars, captureVars, proxyVars>>

\* ------------------------------------------------------------ reset, info, list

\* A reset that deletes nothing.
reset_keep(ss, sid) == ss

\* The table after reset_session.
reset_table(ss, sid) == IF Has(ss, sid) THEN Del(ss, sid) ELSE ss

\* What reset_session returns.
reset_result(ss, sid) == Has(ss, sid)

\* KernelManager.reset_session: the whole body runs under the lock.
ResetSession(sid) ==
    /\ \E t \in Threads : pc[t] = "idle"
    /\ LockFree(lock)
    /\ sessions' = reset_table(sessions, sid)
    /\ returned' = [Return("reset_session")
                        EXCEPT !.flag = reset_result(sessions, sid)]
    /\ Forget(sessions, sessions')
    /\ UNCHANGED <<now, max_kernels, lock, heap, nextCtx, pc, call>>
    /\ UNCHANGED <<runVars, routeVars, fileVars, guardVars, jobVars, limitVars, sweepVars, captureVars, proxyVars>>

\* A lookup that touches the session it finds.
info_touch(ss, sid, t) ==
    IF Has(ss, sid)
    THEN [ss EXCEPT ![IndexOf(ss, sid)] = touch(ss[IndexOf(ss, sid)], t)]
    ELSE ss

\* The table after `self._sessions.get(session_id)` and to_info_dict(): dict.get
\* inserts nothing and to_info_dict only reads the session.
info_table(ss, sid, t) == ss

\* Whether get_session_info returns an info dict (an absent id gives None).
info_result(ss, sid) == Has(ss, sid)

\* KernelManager.get_session_info: the whole body runs under the lock.
GetSessionInfo(sid) ==
    /\ \E t \in Threads : pc[t] = "idle"
    /\ LockFree(lock)
    /\ sessions' = info_table(sessions, sid, now)
    /\ returned' = [Return("get_session_info")
                        EXCEPT !.flag = info_result(sessions, sid)]
    /\ UNCHANGED <<now, max_kernels, lock, heap, nextCtx, pc, call, removed>>
    /\ UNCHANGED <<runVars, routeVars, fileVars, guardVars, jobVars, limitVars, sweepVars, captureVars, proxyVars>>

\* KernelManager.list_sessions
ListSessions ==
    /\ \E t \in Threads : pc[t] = "idle"
    /\ LockFree(lock)
    /\ returned' = [Return("list_sessions") EXCEPT !.flag = TRUE]
    /\ UNCHANGED <<now, max_kernels, sessions, lock, heap, nextCtx,
                   pc, call, removed>>
    /\ UNCHANGED <<runVars, routeVars, fileVars, guardVars, jobVars, limitVars, sweepVars, captureVars, proxyVars>>

\* ------------------------------------------------------------ SandboxExecutor.execute

\* One dict shared by every call.
build_shared_globals(ss, sid, fresh) == 1

\* sandbox_globals = self._build_safe_globals(session_dir): every call builds
\* a dict of its own; the kernel table is not consulted.
build_safe_globals(ss, sid, fresh) == fresh

\* exec(compiled, sandbox_globals) for the two programs: the names bound after
\* the run.
exec_bindings(code, bindings, sid) ==
    IF code.kind = "bind" THEN bindings \cup {Binding(code.var, sid)} ELSE bindings

\* The outcome of the run: `print(x)` of an unbound name raises NameError, which
\* execute turns into a failed result; on success stdout and the user-created
\* variable names are reported.
exec_result(code, bindings, sid) ==
    IF code.kind = "read" /\ code.var \notin Names(bindings)
    THEN [ExecutionResult EXCEPT !.success = FALSE, !.error_message = "NameError"]
    ELSE [ExecutionResult EXCEPT
            !.success = TRUE,
            !.stdout = IF code.kind = "read" THEN {code.var} ELSE {},
            !.variables = Names(exec_bindings(code, bindings, sid))]

\* The names a call for session sid starts with if the session persists: those
\* the session's previous Execute reported, when that call is the latest to
\* have returned (no reset and no other call completed since) and no
\* get_or_create is under way (none is about to expire or evict a session).
Persisted(sid) ==
    IF /\ returned.op = "execute"
       /\ returned.session_id = sid
       /\ returned.result.success
       /\ lock = None
    THEN returned.result.variables ELSE {}

\* execute up to loop.run_in_executor(None, _execute): build the globals,
\* inject the caller's context variables, hand the run to the thread pool.
ExecStart(t, sid, code, context, limit) ==
    /\ pc[t] = "idle"
    /\ nextCtx <= limit
    /\ LET g == build_safe_globals(sessions, sid, nextCtx) IN
        /\ call' = [call EXCEPT ![t] =
                        [op |-> "execute", session_id |-> sid, sandbox_globals |-> g,
                         code |-> code, context |-> context,
                         expect |-> Persisted(sid)]]
        /\ heap' = [heap EXCEPT ![g] = @ \cup {Binding(v, sid) : v \in context}]
    /\ nextCtx' = nextCtx + 1
    /\ pc' = [pc EXCEPT ![t] = "exec_running"]
    /\ UNCHANGED <<now, max_kernels, sessions, lock, returned, removed>>
    /\ UNCHANGED <<runVars, routeVars, fileVars, guardVars, jobVars, limitVars, sweepVars, captureVars, proxyVars>>

\* _execute runs to its end and execute returns the result; nothing refers to
\* the call's dict any longer.
ExecFinish(t) ==
    /\ pc[t] = "exec_running"
    /\ LET g == call[t].sandbox_globals
           r == exec_result(call[t].code, heap[g], call[t].session_id) IN
        /\ heap' = [heap EXCEPT ![g] = {}]
        /\ returned' = [Return("execute") EXCEPT !.session_id = call[t].session_id,
                                                 !.result = r]
    /\ call' = [call EXCEPT ![t] = NoCall]
    /\ pc' = [pc EXCEPT ![t] = "idle"]
    /\ UNCHANGED <<now, max_kernels, sessions, lock, nextCtx, removed>>
    /\ UNCHANGED <<runVars, routeVars, fileVars, guardVars, jobVars, limitVars, sweepVars, captureVars, proxyVars>>

\* ------------------------------------------------------------ the sandbox namespace

\* The builtin operations the sandbox must not offer.
Denied ==
    {"eval", "exec", "compile", "__import__", "globals", "locals",
     "exit", "quit", "breakpoint", "input"}

\* dir(builtins): the denied names and a sample of the others.
BuiltinNames ==
    Denied \cup {"delattr", "open", "print", "len", "getattr", "help",
                 "SystemExit", "__build_class__"}

\* settings.BLOCKED_BUILTINS
BLOCKED_BUILTINS ==
    {"exec", "eval", "compile", "__import__", "globals", "locals", "delattr",
     "exit", "quit", "breakpoint", "input", "open"}

\* name.startswith('_')
StartsWithUnderscore(name) == name \in {"__import__", "__build_class__", "_t"}

\* "Always include these essentials" (a sample of the list).
Essentials == {"print", "len", "getattr"}

Builtin(name, kind) == [name |-> name, kind |-> kind]

\* SandboxExecutor._get_safe_builtins: every public name of the builtins
\* module that is not blocked, and the essentials.
get_safe_builtins(blocked) ==
    {Builtin(n, "builtin") :
        n \in {m \in BuiltinNames : ~StartsWithUnderscore(m) /\ m \notin blocked}
              \cup Essentials}

\* safe_builtins['open'] = self._make_safe_open(session_dir)
DictPut(builtins, name, kind) ==
    {b \in builtins : b.name # name} \cup {Builtin(name, kind)}

\* The library and sandbox names _build_safe_globals binds (a sample).
LibraryNames == {"json", "math", "RESULT", "SANDBOX_DIR"}

\* SandboxExecutor._build_safe_globals
safe_globals ==
    [builtins |-> DictPut(get_safe_builtins(BLOCKED_BUILTINS), "open", "safe_open"),
     names |-> LibraryNames]

\* The keys a caller's context can carry; the values are JSON data.  The
\* value under '__builtins__' is the object {"eval": 1, "len": 2}.
ContextKeys == {"x", "__builtins__"}

InjectedBuiltins == {Builtin("eval", "data"), Builtin("len", "data")}

\* sandbox_globals.update(context)
update(globals, ctx) ==
    [builtins |-> IF "__builtins__" \in ctx THEN InjectedBuiltins
                  ELSE globals.builtins,
     names |-> globals.names \cup (ctx \ {"__builtins__"})]

\* Name lookup by running code: the globals, then the builtins.
Bound(globals, name) ==
    \/ name \in globals.names
    \/ \E b \in globals.builtins : b.name = name

\* ------------------------------------------------------------ _preprocess_code

\* The lines code is written with.
Lines ==
    {"x = 1", "print(x)", "import os", "import json", "os.getcwd()",
     "if x:", "    import os", "    print(x)", "assert False",
     "while True: pass", "raise SystemExit", "big = [0] * 10**12", "_t = 1"}

\* line.strip()
strip(line) ==
    IF line = "    import os" THEN "import os"
    ELSE IF line = "    print(x)" THEN "print(x)"
    ELSE line

IsIndented(line) == strip(line) # line

\* A line that opens a block.
IsHeader(line) == line = "if x:"

\* stripped.startswith('import ') or stripped.startswith('from ')
IsImport(stripped) == stripped \in {"import os", "import json"}

\* stripped.split()[1].split('.')[0].split(',')[0]
module_of(stripped) == IF stripped = "import os" THEN "os" ELSE "json"

\* SandboxExecutor._lazy_import: neither os nor json is one of the libraries
\* it loads, so it returns False.
lazy_import(name) == FALSE

\* A line of processed_code: a line passed on as it is (note = None), or the
\* comment "# [sandbox] <stripped> ..." put in its place.
Passed(line) == [text |-> line, note |-> None]

Note(stripped, note) == [text |-> stripped, note |-> note]

\* The body of the loop of _preprocess_code, for one line.
preprocess_line(line, globals) ==
    LET stripped == strip(line) IN
    IF IsImport(stripped)
    THEN IF lazy_import(module_of(stripped))
         THEN Note(stripped, "pre-loaded")
         ELSE IF module_of(stripped) \in globals.names
         THEN Note(stripped, "already available")
         ELSE Note(stripped, "BLOCKED")
    ELSE Passed(line)

\* SandboxExecutor._preprocess_code
preprocess_code(lines, globals) ==
    [i \in 1..Len(lines) |-> preprocess_line(lines[i], globals)]

\* ------------------------------------------------------------ compile and exec

\* The statements of processed code: comments are none.
Statements(lines) == SelectSeq(lines, LAMBDA l : l.note = None)

\* compile(processed_code, '<sandbox>', 'exec') succeeds: every block header
\* is followed by an indented statement and every indented statement follows
\* a header or an indented statement.
compiles(lines) ==
    LET st == Statements(lines) IN
    \A i \in 1..Len(st) :
        /\ IsHeader(st[i].text) => (i < Len(st) /\ IsIndented(st[i + 1].text))
        /\ IsIndented(st[i].text) =>
              (i > 1 /\ (IsHeader(st[i - 1].text) \/ IsIndented(st[i - 1].text)))

Exc(type, msg) == [type |-> type, msg |-> msg]

NameError(name) == Exc("NameError", name)

\* The exception statement `text` raises in the namespace, NoExc if none.
\* str(e) of AssertionError() and of SystemExit() is the empty string.
raises(text, globals) ==
    LET stmt == strip(text) IN
    IF stmt = "print(x)"
    THEN IF ~Bound(globals, "print") THEN NameError("print")
         ELSE IF ~Bound(globals, "x") THEN NameError("x")
         ELSE NoExc
    ELSE IF stmt = "if x:"
    THEN IF ~Bound(globals, "x") THEN NameError("x") ELSE NoExc
    ELSE IF stmt = "os.getcwd()"
    THEN IF ~Bound(globals, "os") THEN NameError("os") ELSE NoExc
    ELSE IF stmt = "assert False" THEN Exc("AssertionError", "")
    ELSE IF stmt = "raise SystemExit" THEN Exc("SystemExit", "")
    ELSE IF stmt = "big = [0] * 10**12" THEN Exc("MemoryError", "")
    ELSE NoExc

\* The names bound after statement `text` has run without raising.
binds(text, globals) ==
    IF text = "x = 1" THEN [globals EXCEPT !.names = @ \cup {"x"}]
    ELSE IF text = "_t = 1" THEN [globals EXCEPT !.names = @ \cup {"_t"}]
    ELSE globals

\* A statement that never finishes.
Diverges(text) == text = "while True: pass"

\* ------------------------------------------------------------ execute, step by step

\* The submissions: up to MaxLines lines.
Submissions == UNION {[1..n -> Lines] : n \in 1..MaxLines}

\* The contexts callers pass.
Contexts == {{}, {"x"}, {"__builtins__"}}

\* execute has been called with a submission and a context.
RunInit ==
    /\ KernelInit
    /\ max_kernels = 1
    /\ rpc = "called"
    /\ submission \in Submissions
    /\ injected \in Contexts
    /\ sandbox_globals = NoGlobals
    /\ processed = <<>>
    /\ worker = NoWorker
    /\ stdout_capture = {}
    /\ result = NewResult
    /\ escaped = None
    /\ response = NoResponse
    /\ FileOff
    /\ GuardOff
    /\ JobsOff /\ LimitOff /\ SweepOff /\ CaptureOff /\ ProxyOff

\* A failed result with the message of one of execute's handlers.
Failure(res, msg, tb) ==
    [res EXCEPT !.success = FALSE, !.error_message = msg, !.error_traceback = tb]

\* session_dir.mkdir(parents=True, exist_ok=True), outside any try: the
\* directory is there afterwards, or mkdir raises (a session id that is no
\* usable directory name) and the exception leaves execute.
RunMkdir ==
    /\ rpc = "called"
    /\ \E ok \in BOOLEAN :
          IF ok THEN rpc' = "build" /\ UNCHANGED escaped
          ELSE rpc' = "raised" /\ escaped' = "OSError"
    /\ UNCHANGED <<submission, injected, sandbox_globals, processed, worker,
                   stdout_capture, result>>
    /\ UNCHANGED <<kernelVars, routeVars, fileVars, guardVars, jobVars, limitVars, sweepVars, captureVars, proxyVars>>

\* sandbox_globals = self._build_safe_globals(session_dir), then
\* sandbox_globals.update(context); a failure to build is returned as a result.
RunBuild ==
    /\ rpc = "build"
    /\ \E ok \in BOOLEAN :
          IF ok
          THEN /\ sandbox_globals' = update(safe_globals, injected)
               /\ rpc' = "preprocess"
               /\ UNCHANGED result
          ELSE /\ result' = Failure(result, "Sandbox initialization failed", "traceback")
               /\ rpc' = "returned"
               /\ UNCHANGED sandbox_globals
    /\ UNCHANGED <<submission, injected, processed, worker, stdout_capture, escaped>>
    /\ UNCHANGED <<kernelVars, routeVars, fileVars, guardVars, jobVars, limitVars, sweepVars, captureVars, proxyVars>>

\* processed_code = self._preprocess_code(code, sandbox_globals); a failure is
\* returned as a result.  Then the run is handed to the pool:
\* loop.run_in_executor(None, _execute).
RunPreprocess ==
    /\ rpc = "preprocess"
    /\ \E ok \in BOOLEAN :
          IF ok
          THEN /\ processed' = preprocess_code(submission, sandbox_globals)
               /\ worker' = [NoWorker EXCEPT !.status = "compiling"]
               /\ rpc' = "awaiting"
               /\ UNCHANGED result
          ELSE /\ result' = Failure(result, "Code preprocessing failed", "traceback")
               /\ rpc' = "returned"
               /\ UNCHANGED <<processed, worker>>
    /\ UNCHANGED <<submission, injected, sandbox_globals, stdout_capture, escaped>>
    /\ UNCHANGED <<kernelVars, routeVars, fileVars, guardVars, jobVars, limitVars, sweepVars, captureVars, proxyVars>>

\* _execute: compiled = compile(processed_code, '<sandbox>', 'exec')
WorkerCompile ==
    /\ worker.status = "compiling"
    /\ worker' =
          IF ~compiles(processed)
          THEN [worker EXCEPT !.status = "raised",
                              !.exc = Exc("SyntaxError", "expected an indented block")]
          ELSE IF Statements(processed) = <<>>
          THEN [worker EXCEPT !.status = "done"]
          ELSE [worker EXCEPT !.status = "running"]
    /\ UNCHANGED <<rpc, submission, injected, sandbox_globals, processed,
                   stdout_capture, result, escaped>>
    /\ UNCHANGED <<kernelVars, routeVars, fileVars, guardVars, jobVars, limitVars, sweepVars, captureVars, proxyVars>>

\* _execute: exec(compiled, sandbox_globals), one statement.  The thread runs
\* on whether or not execute is still waiting for it.
WorkerStep ==
    /\ worker.status = "running"
    /\ LET st == Statements(processed)
           text == st[worker.next].text
           e == raises(text, sandbox_globals) IN
        /\ ~Diverges(text)
        /\ IF e # NoExc
           THEN /\ worker' = [worker EXCEPT !.status = "raised", !.exc = e]
                /\ UNCHANGED <<sandbox_globals, stdout_capture>>
           ELSE /\ worker' = [worker EXCEPT
                                !.next = @ + 1,
                                !.status = IF worker.next = Len(st)
                                           THEN "done" ELSE "running"]
                /\ sandbox_globals' = binds(text, sandbox_globals)
                /\ stdout_capture' =
                        IF strip(text) = "print(x)"
                        THEN stdout_capture \cup {worker.next}
                        ELSE stdout_capture
    /\ UNCHANGED <<rpc, submission, injected, processed, result, escaped>>
    /\ UNCHANGED <<kernelVars, routeVars, fileVars, guardVars, jobVars, limitVars, sweepVars, captureVars, proxyVars>>

\* Every name of the namespace reported.
user_variables_all(globals) == globals.names

\* The user-defined variables execute reports: the names that do not start
\* with '_' and are not in skip_vars.
user_variables(globals) ==
    {key \in globals.names : ~StartsWithUnderscore(key) /\ key \notin LibraryNames}

\* str(e), as the `except Exception` handler stores it.
str(e) ==
    IF e.type = "NameError" THEN
        (IF e.msg = "x" THEN "name 'x' is not defined"
         ELSE IF e.msg = "os" THEN "name 'os' is not defined"
         ELSE "name 'print' is not defined")
    ELSE e.msg

\* Handlers without the asyncio.TimeoutError clause.
handled_no_timeout(res, e) ==
    IF e.type = "MemoryError"
    THEN Failure(res, "Memory limit exceeded (4096 MB)", "")
    ELSE Failure(res, str(e), "traceback")

\* The handlers of execute for an exception e raised by the awaited run:
\* asyncio.TimeoutError, MemoryError, Exception.
handled(res, e) ==
    IF e.type = "TimeoutError"
    THEN Failure(res, "Execution timed out after 30 seconds", "")
    ELSE IF e.type = "MemoryError"
    THEN Failure(res, "Memory limit exceeded (4096 MB)", "")
    ELSE Failure(res, str(e), "traceback")

\* isinstance(e, Exception): SystemExit is a BaseException only.
IsException(e) == e.type # "SystemExit"

\* `finally`: result.stdout = stdout_capture.getvalue()
finally(res, out) == [res EXCEPT !.stdout = out]

\* The awaited run has ended: execute fills in the result (success or the
\* handler's failure), runs `finally` and returns; an exception none of the
\* handlers catches leaves execute after `finally`.
RunComplete ==
    /\ rpc = "awaiting"
    /\ worker.status \in {"done", "raised"}
    /\ IF worker.status = "done"
       THEN /\ result' = finally([result EXCEPT
                                    !.success = TRUE,
                                    !.variables = user_variables(sandbox_globals)],
                                 stdout_capture)
            /\ rpc' = "returned"
            /\ UNCHANGED escaped
       ELSE IF IsException(worker.exc)
       THEN /\ result' = finally(handled(result, worker.exc), stdout_capture)
            /\ rpc' = "returned"
            /\ UNCHANGED escaped
       ELSE /\ result' = finally(result, stdout_capture)
            /\ rpc' = "raised"
            /\ escaped' = worker.exc.type
    /\ UNCHANGED <<submission, injected, sandbox_globals, processed, worker,
                   stdout_capture>>
    /\ UNCHANGED <<kernelVars, routeVars, fileVars, guardVars, jobVars, limitVars, sweepVars, captureVars, proxyVars>>

\* A cancellation that stops the pool thread.
cancel_stops(w) == [w EXCEPT !.status = "stopped"]

\* wait_for cancels the future of run_in_executor at the timeout: the
\* future is marked cancelled, the pool thread that is running _execute is
\* not interrupted.
cancel(w) == w

\* asyncio.wait_for's timeout expires while the run has not ended: the
\* TimeoutError handler and `finally` run and execute returns; the pool
\* thread is not stopped.
RunTimeout ==
    /\ rpc = "awaiting"
    /\ worker.status \in {"compiling", "running"}
    /\ worker' = cancel(worker)
    /\ result' = finally(handled(result, Exc("TimeoutError", "")), stdout_capture)
    /\ rpc' = "returned"
    /\ UNCHANGED <<submission, injected, sandbox_globals, processed,
                   stdout_capture, escaped>>
    /\ UNCHANGED <<kernelVars, routeVars, fileVars, guardVars, jobVars, limitVars, sweepVars, captureVars, proxyVars>>

\* ------------------------------------------------------------ routes

\* len(text): a captured text is the set of the print statements that wrote
\* to it, each one unit long.
len(text) == Cardinality(text)

\* text[:n]
slice(text, n) == {i \in text : Cardinality({j \in text : j <= i}) <= n}

\* ExecutionResult.to_dict
to_dict(res) ==
    [route |-> "execute",
     success |-> res.success,
     stdout |-> slice(res.stdout, MAX_OUTPUT_SIZE),
     error_message |-> res.error_message]

\* The body execute_quick builds: 'output' is result.stdout.strip() on
\* success and result.error_message otherwise.
quick_body(res) ==
    [route |-> "quick",
     success |-> res.success,
     stdout |-> IF res.success THEN res.stdout ELSE {},
     error_message |-> IF res.success THEN None ELSE res.error_message]

\* POST /execute: return result.to_dict()
ExecuteCode ==
    /\ rpc = "returned"
    /\ rpc' = "responded"
    /\ response' = to_dict(result)
    /\ UNCHANGED <<submission, injected, sandbox_globals, processed, worker,
                   stdout_capture, result, escaped>>
    /\ UNCHANGED <<kernelVars, fileVars, guardVars, jobVars, limitVars, sweepVars, captureVars, proxyVars>>

\* POST /execute/quick: executor.execute(code, session_id="quick",
\* timeout=10), no context.
ExecuteQuick ==
    /\ rpc = "returned"
    /\ injected = {}
    /\ rpc' = "responded"
    /\ response' = quick_body(result)
    /\ UNCHANGED <<submission, injected, sandbox_globals, processed, worker,
                   stdout_capture, result, escaped>>
    /\ UNCHANGED <<kernelVars, fileVars, guardVars, jobVars, limitVars, sweepVars, captureVars, proxyVars>>

RunNext ==
    \/ RunMkdir
    \/ RunBuild
    \/ RunPreprocess
    \/ WorkerCompile
    \/ WorkerStep
    \/ RunComplete
    \/ RunTimeout
    \/ ExecuteCode
    \/ ExecuteQuick

\* ------------------------------------------------------------ safe_open

\* A path is the sequence of its components below the root; a relative path
\* may hold "..".  The names: the sandbox directory /s, the sessions a and
\* ab, a file name f, a symbolic link l, a directory /e outside the sandbox.
Components == {"..", "a", "ab", "f", "l", "s", "e"}

\* self.sandbox_dir / session_id
SessionDirs == {<<"s", "a">>, <<"s", "ab">>}

\* The symbolic link /s/a/l points to /e.
IsLink(path) == path = <<"s", "a", "l">>

LinkTarget(path) == <<"e">>

\* The file system before the call.
InitialDirs(session_dir) == {<<>>, <<"s">>, <<"s", "a">>, <<"e">>, session_dir}

InitialFiles == {<<"e", "f">>}

\* The characters of a component.
chars(c) ==
    IF c = "ab" THEN <<"a", "b">>
    ELSE IF c = ".." THEN <<".", ".">>
    ELSE <<c>>

RECURSIVE joined(_)
joined(path) ==
    IF path = <<>> THEN <<>>
    ELSE joined(SubSeq(path, 1, Len(path) - 1)) \o <<"/">> \o chars(path[Len(path)])

\* str(path), as a sequence of characters
path_str(path) == IF path = <<>> THEN <<"/">> ELSE joined(path)

\* s.startswith(prefix)
startswith(s, prefix) ==
    Len(prefix) <= Len(s) /\ SubSeq(s, 1, Len(prefix)) = prefix

\* path.parent
Parent(path) == IF path = <<>> THEN <<>> ELSE SubSeq(path, 1, Len(path) - 1)

\* Path.resolve(): ".." goes to the parent, a symbolic link to its target.
RECURSIVE realpath(_, _)
realpath(cur, rest) ==
    IF rest = <<>> THEN cur
    ELSE IF Head(rest) = ".." THEN realpath(Parent(cur), Tail(rest))
    ELSE IF IsLink(Append(cur, Head(rest)))
    THEN realpath(LinkTarget(Append(cur, Head(rest))), Tail(rest))
    ELSE realpath(Append(cur, Head(rest)), Tail(rest))

resolve(path) == realpath(<<>>, path)

\* path = Path(filepath); if not path.is_absolute(): path = session_dir / path
requested_path(req) ==
    IF req.absolute THEN req.parts ELSE req.session_dir \o req.parts

\* str(resolved).startswith(str(session_resolved))
within(resolved, session_resolved) ==
    startswith(path_str(resolved), path_str(session_resolved))

\* path and its ancestors
Ancestors(path) == {SubSeq(path, 1, k) : k \in 0..Len(path)}

\* The calls of safe_open.
Requests ==
    [session_dir : SessionDirs,
     absolute : BOOLEAN,
     parts : UNION {[1..n -> Components] : n \in 1..MaxPath},
     mode : {"r", "w"}]

\* safe_open is about to be called.
OpenInit ==
    /\ KernelInit
    /\ max_kernels = 1
    /\ RunOff
    /\ GuardOff
    /\ JobsOff /\ LimitOff /\ SweepOff /\ CaptureOff /\ ProxyOff
    /\ request \in Requests
    /\ dirs = InitialDirs(request.session_dir)
    /\ files = InitialFiles
    /\ outcome = None

\* safe_open(filepath, mode): the check, the creation of the parent
\* directories for a write mode, then the built-in open.
SafeOpen ==
    /\ request # NoRequest
    /\ outcome = None
    /\ LET resolved == resolve(requested_path(request))
           session_resolved == resolve(request.session_dir)
           writing == request.mode = "w"
       IN
        IF ~within(resolved, session_resolved)
        THEN outcome' = "PermissionError" /\ UNCHANGED <<dirs, files>>
        ELSE IF writing /\ Ancestors(Parent(resolved)) \cap files # {}
        THEN outcome' = "NotADirectoryError" /\ UNCHANGED <<dirs, files>>
        ELSE LET made == IF writing THEN dirs \cup Ancestors(Parent(resolved))
                         ELSE dirs
             IN /\ dirs' = made
                /\ IF resolved \in made
                   THEN outcome' = "IsADirectoryError" /\ UNCHANGED files
                   ELSE IF writing
                   THEN IF Parent(resolved) \in made
                        THEN outcome' = "opened" /\ files' = files \cup {resolved}
                        ELSE outcome' = "FileNotFoundError" /\ UNCHANGED files
                   ELSE IF resolved \in files
                   THEN outcome' = "opened" /\ UNCHANGED files
                   ELSE outcome' = "FileNotFoundError" /\ UNCHANGED files
    /\ UNCHANGED request
    /\ UNCHANGED <<kernelVars, runVars, routeVars, guardVars, jobVars, limitVars, sweepVars, captureVars, proxyVars>>

\* ------------------------------------------------------------ memory_guard

\* What the submitted code does when run as a script: how the process ends
\* by itself (never, for "loop"), and whether it deletes its own script file.
Programs ==
    [ending : {"ok", "fault", "memory_error", "caught_memory_error", "oom_kill", "loop"},
     unlinks : BOOLEAN]

\* proc.returncode of a process that ends by itself.
returncode_of(ending) ==
    IF ending \in {"ok", "caught_memory_error"} THEN 0
    ELSE IF ending = "oom_kill" THEN -9
    ELSE 1

\* "MemoryError" in stderr
memory_error_in_stderr(ending) == ending \in {"memory_error", "caught_memory_error"}

\* execute_with_memory_limit has been called.
GuardInit ==
    /\ KernelInit
    /\ max_kernels = 1
    /\ RunOff
    /\ FileOff
    /\ JobsOff /\ LimitOff /\ SweepOff /\ CaptureOff /\ ProxyOff
    /\ guard_pc = "called"
    /\ program \in Programs
    /\ script_file = FALSE
    /\ proc = NoProc
    /\ timed_out = FALSE
    /\ deadline_alive = FALSE
    /\ guard_result = NoGuardResult
    /\ guard_escaped = None

\* The dict of the `except Exception` handler.
launch_failure ==
    [success |-> FALSE, return_code |-> -1, timed_out |-> FALSE,
     oom_killed |-> FALSE, stderr |-> "Failed to launch sandbox subprocess"]

\* The dict returned after communicate().
guard_dict(p, timeout_hit) ==
    LET oom_killed == p.returncode = -9 \/ p.memory_error IN
    [success |-> p.returncode = 0 /\ ~timeout_hit,
     return_code |-> p.returncode,
     timed_out |-> timeout_hit,
     oom_killed |-> oom_killed,
     stderr |-> IF timeout_hit THEN "[TIMEOUT]"
                ELSE IF oom_killed THEN "[OOM]" ELSE ""]

\* `finally` that does not remove the file.
unlink_skipped(exists) == exists

\* `finally`: os.unlink(script_path); an OSError (the file is gone already)
\* is passed over.
unlink(exists) == FALSE

\* fd, script_path = tempfile.mkstemp(...), before the `try`: the file is
\* created, or mkstemp raises and the exception leaves the function.
GuardMkstemp ==
    /\ guard_pc = "called"
    /\ \E ok \in BOOLEAN :
          IF ok
          THEN guard_pc' = "created" /\ script_file' = TRUE /\ UNCHANGED guard_escaped
          ELSE guard_pc' = "raised" /\ guard_escaped' = "OSError" /\ UNCHANGED script_file
    /\ UNCHANGED <<program, proc, timed_out, deadline_alive, guard_result>>
    /\ UNCHANGED <<kernelVars, runVars, routeVars, fileVars, jobVars, limitVars, sweepVars, captureVars, proxyVars>>

\* with os.fdopen(fd, "w") as f: f.write(code); a failure goes to the
\* `except Exception` handler, then `finally`.
GuardWrite ==
    /\ guard_pc = "created"
    /\ \E ok \in BOOLEAN :
          IF ok
          THEN guard_pc' = "written" /\ UNCHANGED <<script_file, guard_result>>
          ELSE /\ guard_result' = launch_failure
               /\ script_file' = unlink(script_file)
               /\ guard_pc' = "returned"
    /\ UNCHANGED <<program, proc, timed_out, deadline_alive, guard_escaped>>
    /\ UNCHANGED <<kernelVars, runVars, routeVars, fileVars, jobVars, limitVars, sweepVars, captureVars, proxyVars>>

\* proc = await asyncio.create_subprocess_exec(...); a failure goes to the
\* `except Exception` handler, then `finally`.
GuardSpawn ==
    /\ guard_pc = "written"
    /\ \E ok \in BOOLEAN :
          IF ok
          THEN /\ proc' = [state |-> "running", returncode |-> 0, memory_error |-> FALSE]
               /\ guard_pc' = "awaiting"
               /\ UNCHANGED <<script_file, guard_result>>
          ELSE /\ guard_result' = launch_failure
               /\ script_file' = unlink(script_file)
               /\ guard_pc' = "returned"
               /\ UNCHANGED proc
    /\ UNCHANGED <<program, timed_out, deadline_alive, guard_escaped>>
    /\ UNCHANGED <<kernelVars, runVars, routeVars, fileVars, jobVars, limitVars, sweepVars, captureVars, proxyVars>>

\* The subprocess deletes its own script file.
ChildUnlink ==
    /\ proc.state = "running"
    /\ program.unlinks
    /\ script_file
    /\ script_file' = FALSE
    /\ UNCHANGED <<guard_pc, program, proc, timed_out, deadline_alive,
                   guard_result, guard_escaped>>
    /\ UNCHANGED <<kernelVars, runVars, routeVars, fileVars, jobVars, limitVars, sweepVars, captureVars, proxyVars>>

\* The subprocess ends by itself.
ChildExit ==
    /\ proc.state = "running"
    /\ program.ending # "loop"
    /\ proc' = [state |-> "exited",
                returncode |-> returncode_of(program.ending),
                memory_error |-> memory_error_in_stderr(program.ending)]
    /\ UNCHANGED <<guard_pc, program, script_file, timed_out, deadline_alive,
                   guard_result, guard_escaped>>
    /\ UNCHANGED <<kernelVars, runVars, routeVars, fileVars, jobVars, limitVars, sweepVars, captureVars, proxyVars>>

\* await asyncio.wait_for(proc.communicate(), timeout) returns: the process
\* has ended.  The dict is built and returned, `finally` runs.
GuardCommunicated ==
    /\ guard_pc = "awaiting"
    /\ proc.state = "exited"
    /\ guard_result' = guard_dict(proc, timed_out)
    /\ script_file' = unlink(script_file)
    /\ guard_pc' = "returned"
    /\ UNCHANGED <<program, proc, timed_out, deadline_alive, guard_escaped>>
    /\ UNCHANGED <<kernelVars, runVars, routeVars, fileVars, jobVars, limitVars, sweepVars, captureVars, proxyVars>>

\* The timeout elapses before communicate() has returned: wait_for cancels
\* it and raises TimeoutError; timed_out = True.
GuardTimeout ==
    /\ guard_pc = "awaiting"
    /\ timed_out' = TRUE
    /\ deadline_alive' = (proc.state = "running")
    /\ guard_pc' = "timeout"
    /\ UNCHANGED <<program, script_file, proc, guard_result, guard_escaped>>
    /\ UNCHANGED <<kernelVars, runVars, routeVars, fileVars, jobVars, limitVars, sweepVars, captureVars, proxyVars>>

\* proc.kill(): SIGKILL for a running process.  For a process that has
\* ended meanwhile it does nothing, or, when the event loop has already
\* closed the transport, raises ProcessLookupError, which the
\* `except Exception` handler turns into the launch-failure dict.
GuardKill ==
    /\ guard_pc = "timeout"
    /\ \/ /\ proc.state = "running"
          /\ proc' = [proc EXCEPT !.state = "exited", !.returncode = -9]
          /\ guard_pc' = "killed"
          /\ UNCHANGED <<script_file, guard_result>>
       \/ /\ proc.state = "exited"
          /\ guard_pc' = "killed"
          /\ UNCHANGED <<proc, script_file, guard_result>>
       \/ /\ proc.state = "exited"
          /\ guard_result' = launch_failure
          /\ script_file' = unlink(script_file)
          /\ guard_pc' = "returned"
          /\ UNCHANGED proc
    /\ UNCHANGED <<program, timed_out, deadline_alive, guard_escaped>>
    /\ UNCHANGED <<kernelVars, runVars, routeVars, fileVars, jobVars, limitVars, sweepVars, captureVars, proxyVars>>

\* stdout_bytes, stderr_bytes = await proc.communicate() after the kill,
\* then the dict is built and returned, `finally` runs.
GuardReap ==
    /\ guard_pc = "killed"
    /\ proc.state = "exited"
    /\ guard_result' = guard_dict(proc, timed_out)
    /\ script_file' = unlink(script_file)
    /\ guard_pc' = "returned"
    /\ UNCHANGED <<program, proc, timed_out, deadline_alive, guard_escaped>>
    /\ UNCHANGED <<kernelVars, runVars, routeVars, fileVars, jobVars, limitVars, sweepVars, captureVars, proxyVars>>

GuardNext ==
    \/ GuardMkstemp
    \/ GuardWrite
    \/ GuardSpawn
    \/ ChildUnlink
    \/ ChildExit
    \/ GuardCommunicated
    \/ GuardTimeout
    \/ GuardKill
    \/ GuardReap

\* ------------------------------------------------------------ jobs

\* JobStatus
Terminal == {"completed", "failed", "cancelled", "timeout"}

JobStatuses == {"pending", "running"} \cup Terminal

\* What a submitted code does when run: it ends (normally or with a fault),
\* or it never ends.
JobCodes == {"ends", "loop"}

\* How an execution that ends within the timeout ends.
Outcomes == {"completed", "failed"}

\* The job ids callers ask about: the submitted ones and one unknown id.
JobIds == 1..(MaxJobs + 1)

\* The job ids polled: the submitted ones and one unknown id.
PolledJobIds == 1..(MaxPolledJobs + 1)

\* A job record right after submission.
NewJob(code) ==
    [status |-> "pending", code |-> code, started |-> FALSE, completed |-> FALSE,
     result |-> None]

Known(job_id) == job_id \in 1..Len(jobs)

\* The response of a job route.
JobResponse(op, http, job_id, status, body) ==
    [op |-> op, http |-> http, job_id |-> job_id, status |-> status, result |-> body]

\* submit that runs the job on the caller when no worker is idle.
submit_inline(js, q, ws, code) ==
    IF \A w \in Workers : ws[w] # NoJob
    THEN [jobs |-> Append(js, [NewJob(code) EXCEPT !.status = "completed",
                                                   !.started = TRUE,
                                                   !.completed = TRUE,
                                                   !.result = "output"]),
          queue |-> q]
    ELSE [jobs |-> Append(js, NewJob(code)), queue |-> Append(q, Len(js) + 1)]

\* job_manager.submit_job: the record is created in status pending and its
\* id is queued.
submit(js, q, ws, code) ==
    [jobs |-> Append(js, NewJob(code)), queue |-> Append(q, Len(js) + 1)]

\* POST /jobs/submit: 400 for blank code; otherwise the job is submitted and
\* its id returned with status "pending".
SubmitJob(code, limit) ==
    /\ Len(jobs) < limit
    /\ IF code = ""
       THEN /\ job_response' = JobResponse("submit", "400", NoJob, None, None)
            /\ UNCHANGED <<jobs, queue>>
       ELSE LET s == submit(jobs, queue, workers, code) IN
            /\ jobs' = s.jobs
            /\ queue' = s.queue
            /\ job_response' = JobResponse("submit", "200", Len(jobs) + 1, "pending", None)
    /\ UNCHANGED workers
    /\ UNCHANGED <<kernelVars, runVars, routeVars, fileVars, guardVars, limitVars, sweepVars, captureVars, proxyVars>>

\* A pool in which a worker takes a job whatever it is doing.
idle_always(ws, w) == TRUE

\* The worker has no job.
idle(ws, w) == ws[w] = NoJob

\* An idle worker takes the oldest queued job: a job still pending becomes
\* running and is stamped startedAt; a job cancelled while queued is dropped.
WorkerDequeue(w) ==
    /\ idle(workers, w)
    /\ queue # <<>>
    /\ LET j == Head(queue) IN
        /\ queue' = Tail(queue)
        /\ IF jobs[j].status = "pending"
           THEN /\ jobs' = [jobs EXCEPT ![j].status = "running", ![j].started = TRUE]
                /\ workers' = [workers EXCEPT ![w] = j]
           ELSE UNCHANGED <<jobs, workers>>
    /\ UNCHANGED job_response
    /\ UNCHANGED <<kernelVars, runVars, routeVars, fileVars, guardVars, limitVars, sweepVars, captureVars, proxyVars>>

\* A write of the outcome whatever the job's status is.
may_finish_always(job) == TRUE

\* A worker that never ends a run whose code does not end by itself.
may_finish_if_ends(job) == job.status = "running" /\ job.code # "loop"

\* The worker writes an outcome only to a job that is running.
may_finish(job) == job.status = "running"

\* A worker that records every run that ends as completed.
finished_completed(job, ending) ==
    [job EXCEPT !.status = "completed", !.result = "output", !.completed = TRUE]

\* The record of a job whose run has ended: completed with the output when
\* the code ran to its end, failed with the fault message when it raised.
finished(job, ending) ==
    [job EXCEPT !.status = ending,
                !.result = IF ending = "completed" THEN "output" ELSE "error",
                !.completed = TRUE]

\* The execution ends within the timeout: the worker stamps completedAt and
\* writes completed with the output, or failed with the error, and is idle
\* again.
WorkerFinish(w, ending) ==
    /\ workers[w] # NoJob
    /\ LET j == workers[w] IN
        /\ may_finish(jobs[j])
        /\ jobs[j].code # "loop"
        /\ jobs' = [jobs EXCEPT ![j] = finished(jobs[j], ending)]
    /\ workers' = [workers EXCEPT ![w] = NoJob]
    /\ UNCHANGED <<queue, job_response>>
    /\ UNCHANGED <<kernelVars, runVars, routeVars, fileVars, guardVars, limitVars, sweepVars, captureVars, proxyVars>>

\* The job's timeout elapses first: the execution is abandoned, the worker
\* writes timeout and is idle again.
WorkerTimeout(w) ==
    /\ workers[w] # NoJob
    /\ LET j == workers[w] IN
        /\ may_finish(jobs[j])
        /\ jobs' = [jobs EXCEPT ![j].status = "timeout",
                                ![j].result = "timed out",
                                ![j].completed = TRUE]
    /\ workers' = [workers EXCEPT ![w] = NoJob]
    /\ UNCHANGED <<queue, job_response>>
    /\ UNCHANGED <<kernelVars, runVars, routeVars, fileVars, guardVars, limitVars, sweepVars, captureVars, proxyVars>>

\* The execution of a cancelled job has been interrupted: the worker is idle
\* again and writes nothing.
WorkerInterrupted(w) ==
    /\ workers[w] # NoJob
    /\ jobs[workers[w]].status = "cancelled"
    /\ workers' = [workers EXCEPT ![w] = NoJob]
    /\ UNCHANGED <<jobs, queue, job_response>>
    /\ UNCHANGED <<kernelVars, runVars, routeVars, fileVars, guardVars, limitVars, sweepVars, captureVars, proxyVars>>

\* cancel that also takes a job in a terminal status.
cancellable_any(js, job_id) == job_id \in 1..Len(js)

\* job_manager.cancel_job returns true: the job is known and pending or
\* running.
cancellable(js, job_id) ==
    job_id \in 1..Len(js) /\ js[job_id].status \in {"pending", "running"}

\* POST /jobs/{job_id}/cancel: the job is cancelled and 200 returned, or 404
\* when job_manager.cancel_job returns false.
CancelJob(job_id) ==
    /\ IF cancellable(jobs, job_id)
       THEN /\ jobs' = [jobs EXCEPT ![job_id].status = "cancelled",
                                    ![job_id].completed = TRUE]
            /\ job_response' = JobResponse("cancel", "200", job_id, "cancelled", None)
       ELSE /\ job_response' = JobResponse("cancel", "404", job_id, None, None)
            /\ UNCHANGED jobs
    /\ UNCHANGED <<queue, workers>>
    /\ UNCHANGED <<kernelVars, runVars, routeVars, fileVars, guardVars, limitVars, sweepVars, captureVars, proxyVars>>

\* GET /jobs/{job_id}/status
GetJobStatus(job_id) ==
    /\ job_response' =
          IF Known(job_id)
          THEN JobResponse("status", "200", job_id, jobs[job_id].status, None)
          ELSE JobResponse("status", "404", job_id, None, None)
    /\ UNCHANGED <<jobs, queue, workers>>
    /\ UNCHANGED <<kernelVars, runVars, routeVars, fileVars, guardVars, limitVars, sweepVars, captureVars, proxyVars>>

\* The test of get_job_result with 'running' left out.
not_ready_pending_only(status) == status = "pending"

\* result['status'] in ('pending', 'running')
not_ready(status) == status \in {"pending", "running"}

\* GET /jobs/{job_id}/result: 404 when job_manager.get_job_result returns
\* nothing, 202 while the job is pending or running, otherwise the record.
GetJobResult(job_id) ==
    /\ job_response' =
          IF ~Known(job_id)
          THEN JobResponse("result", "404", job_id, None, None)
          ELSE IF not_ready(jobs[job_id].status)
          THEN JobResponse("result", "202", job_id, jobs[job_id].status, None)
          ELSE JobResponse("result", "200", job_id, jobs[job_id].status,
                           jobs[job_id].result)
    /\ UNCHANGED <<jobs, queue, workers>>
    /\ UNCHANGED <<kernelVars, runVars, routeVars, fileVars, guardVars, limitVars, sweepVars, captureVars, proxyVars>>

\* The pool and the routes that change jobs.
JobsNext(limit) ==
    \/ \E code \in JobCodes \cup {""} : SubmitJob(code, limit)
    \/ \E w \in Workers : WorkerDequeue(w)
    \/ \E w \in Workers, ending \in Outcomes : WorkerFinish(w, ending)
    \/ \E w \in Workers : WorkerTimeout(w)
    \/ \E w \in Workers : WorkerInterrupted(w)
    \/ \E job_id \in JobIds : CancelJob(job_id)

\* The read-only routes.
JobsQueryNext ==
    \/ \E job_id \in PolledJobIds : GetJobStatus(job_id)
    \/ \E job_id \in PolledJobIds : GetJobResult(job_id)

\* ------------------------------------------------------------ the timeout of POST /execute

\* A timeout as Python holds it: None or an int.
int(n) == [kind |-> "int", value |-> n]

\* The `timeout` field of a request body: left out, null, or an integer.
RequestedTimeouts ==
    {[kind |-> "missing", value |-> Cardinality({})], NoTimeout}
        \cup {int(n) : n \in (0 - 1)..MaxTimeout}

\* ExecuteRequest.timeout: Optional[int] = Field(default=30): a field left
\* out takes the default, null stays None.
ExecuteRequest(field) ==
    IF field.kind = "missing" THEN int(SYNC_DEFAULT_TIMEOUT) ELSE field

\* a or b, for a an int or None: b when a is None or 0.
or(a, b) == IF a.kind = "null" \/ a.value = 0 THEN b ELSE a

\* min(a, b)
min(a, b) == IF a.value <= b.value THEN a ELSE b

\* A route that passes the requested timeout on without the ceiling.
uncapped(timeout) == or(timeout, int(SYNC_DEFAULT_TIMEOUT))

\* execute_code: timeout = min(request.timeout or 30, 60)
capped(timeout) == min(or(timeout, int(SYNC_DEFAULT_TIMEOUT)), int(SYNC_MAX_TIMEOUT))

\* A POST /execute request has arrived.
LimitInit == Init /\ max_kernels = 1

\* The body is parsed into an ExecuteRequest.
LimitParse(field) ==
    /\ limit_pc = "off"
    /\ requested' = field
    /\ limit_pc' = "parsed"
    /\ UNCHANGED <<sync_timeout, wait_timeout>>
    /\ UNCHANGED <<kernelVars, runVars, routeVars, fileVars, guardVars, jobVars, sweepVars, captureVars, proxyVars>>

\* execute_code computes the timeout it calls executor.execute with.
LimitRoute ==
    /\ limit_pc = "parsed"
    /\ sync_timeout' = capped(ExecuteRequest(requested))
    /\ limit_pc' = "routed"
    /\ UNCHANGED <<requested, wait_timeout>>
    /\ UNCHANGED <<kernelVars, runVars, routeVars, fileVars, guardVars, jobVars, sweepVars, captureVars, proxyVars>>

\* SandboxExecutor.execute: timeout = timeout or settings.MAX_EXECUTION_TIME,
\* the value asyncio.wait_for is later given.
LimitExecute ==
    /\ limit_pc = "routed"
    /\ wait_timeout' = or(sync_timeout, int(MAX_EXECUTION_TIME))
    /\ limit_pc' = "executing"
    /\ UNCHANGED <<requested, sync_timeout>>
    /\ UNCHANGED <<kernelVars, runVars, routeVars, fileVars, guardVars, jobVars, sweepVars, captureVars, proxyVars>>

LimitNext ==
    \/ \E field \in RequestedTimeouts : LimitParse(field)
    \/ LimitRoute
    \/ LimitExecute

\* ------------------------------------------------------------ the retention sweep

\* A job is stored: the record carries its status and submitted_at.
StoreRecord(status) ==
    /\ cleanup_pc # "off"
    /\ submitted < MaxRecords
    /\ submitted' = submitted + 1
    /\ records' = Append(records, [id |-> submitted + 1, status |-> status,
                                   submitted_at |-> now])
    /\ UNCHANGED <<cleanup_pc, cleanup_logged>>
    /\ UNCHANGED <<kernelVars, runVars, routeVars, fileVars, guardVars, jobVars, limitVars, captureVars, proxyVars>>

\* The record is older than the retention window.
older(record, t) == t - record.submitted_at > JOB_CLEANUP_HOURS

\* job_manager.cleanup_old_jobs: the records older than the retention
\* window are deleted, whatever their status.
cleanup_old_jobs(rs, t) == SelectSeq(rs, LAMBDA r : ~older(r, t))

\* lifespan, startup: the cleanup task is created only if the database was
\* initialised.
LifespanStart ==
    /\ cleanup_pc = "off"
    /\ \E db_ok \in BOOLEAN :
          cleanup_pc' = IF db_ok THEN "sleeping" ELSE "no_task"
    /\ UNCHANGED <<records, submitted, cleanup_logged>>
    /\ UNCHANGED <<kernelVars, runVars, routeVars, fileVars, guardVars, jobVars, limitVars, captureVars, proxyVars>>

\* await asyncio.sleep(3600) returns.
CleanupWake ==
    /\ cleanup_pc = "sleeping"
    /\ cleanup_pc' = "sweeping"
    /\ UNCHANGED <<records, submitted, cleanup_logged>>
    /\ UNCHANGED <<kernelVars, runVars, routeVars, fileVars, guardVars, jobVars, limitVars, captureVars, proxyVars>>

\* A loop that ends at the first failed sweep.
give_up(position) == "stopped"

\* except Exception as e: logger.error(...): the loop goes round again.
go_on(position) == "sleeping"

\* count = await job_manager.cleanup_old_jobs(): the sweep is done, or it
\* raises an Exception, which is logged; either way the loop goes back to
\* sleep.
CleanupSweep(ok) ==
    /\ cleanup_pc = "sweeping"
    /\ IF ok
       THEN /\ records' = cleanup_old_jobs(records, now)
            /\ cleanup_pc' = "sleeping"
            /\ UNCHANGED cleanup_logged
       ELSE /\ cleanup_logged' = TRUE
            /\ cleanup_pc' = go_on(cleanup_pc)
            /\ UNCHANGED records
    /\ UNCHANGED submitted
    /\ UNCHANGED <<kernelVars, runVars, routeVars, fileVars, guardVars, jobVars, limitVars, captureVars, proxyVars>>

\* lifespan, shutdown: cleanup_task.cancel(); the task gets CancelledError
\* at the await it is in and leaves the loop by `break`.
LifespanShutdown ==
    /\ cleanup_pc \in {"sleeping", "sweeping"}
    /\ cleanup_pc' = "stopped"
    /\ UNCHANGED <<records, submitted, cleanup_logged>>
    /\ UNCHANGED <<kernelVars, runVars, routeVars, fileVars, guardVars, jobVars, limitVars, captureVars, proxyVars>>

SweepNext ==
    \/ Tick
    \/ \E status \in JobStatuses : StoreRecord(status)
    \/ LifespanStart
    \/ CleanupWake
    \/ \E ok \in BOOLEAN : CleanupSweep(ok)
    \/ LifespanShutdown

\* ------------------------------------------------------------ the output capture

\* execute is called: the StringIO captures are created and _execute is
\* handed to a thread of the default executor.
CaptureStart(e) ==
    /\ cap_pc[e] = "idle"
    /\ cap_pc' = [cap_pc EXCEPT ![e] = "enter_stdout"]
    /\ UNCHANGED <<sys_streams, old_targets, captures, console, written, cap_result>>
    /\ UNCHANGED <<kernelVars, runVars, routeVars, fileVars, guardVars, jobVars, limitVars, sweepVars, proxyVars>>

\* contextlib: redirect_stdout.__enter__ saves the stream the process has
\* now and puts the capture of this execution in its place.
enter(e, s, at, next) ==
    /\ cap_pc[e] = at
    /\ old_targets' = [old_targets EXCEPT ![e][s] = sys_streams[s]]
    /\ sys_streams' = [sys_streams EXCEPT ![s] = e]
    /\ cap_pc' = [cap_pc EXCEPT ![e] = next]
    /\ UNCHANGED <<captures, console, written, cap_result>>
    /\ UNCHANGED <<kernelVars, runVars, routeVars, fileVars, guardVars, jobVars, limitVars, sweepVars, proxyVars>>

\* with redirect_stdout(stdout_capture), redirect_stderr(stderr_capture):
RedirectEnter(e) ==
    \/ enter(e, "stdout", "enter_stdout", "enter_stderr")
    \/ enter(e, "stderr", "enter_stderr", "exec")

\* The text goes to the stream the process has at the time of the write.
write(e, s, target) ==
    /\ captures' = IF target = "console" THEN captures
                   ELSE [captures EXCEPT ![target][s] =
                            Append(@, [by |-> e, n |-> written[e][s] + 1])]
    /\ console' = IF target = "console"
                  THEN [console EXCEPT ![s] =
                            Append(@, [by |-> e, n |-> written[e][s] + 1])]
                  ELSE console

\* exec(compiled, sandbox_globals): the code prints, or writes to stderr.
CodeWrites(e, s) ==
    /\ cap_pc[e] = "exec"
    /\ written[e][s] < MaxWrites
    /\ write(e, s, sys_streams[s])
    /\ written' = [written EXCEPT ![e][s] = @ + 1]
    /\ UNCHANGED <<sys_streams, old_targets, cap_pc, cap_result>>
    /\ UNCHANGED <<kernelVars, runVars, routeVars, fileVars, guardVars, jobVars, limitVars, sweepVars, proxyVars>>

\* contextlib: redirect_stdout.__exit__ puts back the stream it saved.
exit(e, s, at, next) ==
    /\ cap_pc[e] = at
    /\ sys_streams' = [sys_streams EXCEPT ![s] = old_targets[e][s]]
    /\ cap_pc' = [cap_pc EXCEPT ![e] = next]
    /\ UNCHANGED <<old_targets, captures, console, written, cap_result>>
    /\ UNCHANGED <<kernelVars, runVars, routeVars, fileVars, guardVars, jobVars, limitVars, sweepVars, proxyVars>>

\* The with statement is left: stderr first, then stdout.
RedirectExit(e) ==
    \/ exit(e, "stderr", "exec", "exit_stdout")
    \/ exit(e, "stdout", "exit_stdout", "done")

\* finally: result.stdout = stdout_capture.getvalue(); result.stderr = ...
CaptureReturn(e) ==
    /\ cap_pc[e] = "done"
    /\ cap_result' = [cap_result EXCEPT ![e] = captures[e]]
    /\ cap_pc' = [cap_pc EXCEPT ![e] = "returned"]
    /\ UNCHANGED <<sys_streams, old_targets, captures, console, written>>
    /\ UNCHANGED <<kernelVars, runVars, routeVars, fileVars, guardVars, jobVars, limitVars, sweepVars, proxyVars>>

CaptureNext ==
    \E e \in Executions :
        \/ CaptureStart(e)
        \/ RedirectEnter(e)
        \/ \E s \in Streams : CodeWrites(e, s)
        \/ RedirectExit(e)
        \/ CaptureReturn(e)

\* ------------------------------------------------------------ the POST /mcp/sse proxy

\* Status codes the upstream /mcp/messages/ answers a forwarded POST with.
UpstreamStatuses == {202, 400, 404}

\* if response.status_code in (400, 404)
session_expired(status) == status \in {400, 404}

\* The request has its session id and sends the POST upstream; the first
\* POST of a request is remembered.
forward(r, sid, how) ==
    /\ req_sid' = [req_sid EXCEPT ![r] = sid]
    /\ req_pc' = [req_pc EXCEPT ![r] = "forwarding"]
    /\ forwards' = [forwards EXCEPT ![r] = @ + 1]
    /\ first_sid' = IF forwards[r] = 0 THEN [first_sid EXCEPT ![r] = sid]
                    ELSE first_sid
    /\ first_how' = IF forwards[r] = 0 THEN [first_how EXCEPT ![r] = how]
                    ELSE first_how

\* proxy_mcp_sse_post up to the first await of _get_or_create_session_id: a
\* cached id is used at once, else the request goes for the lock.
ProxyArrive(r) ==
    /\ req_pc[r] = "idle"
    /\ IF cached_session_id # {}
       THEN forward(r, cached_session_id, "cached")
       ELSE /\ req_pc' = [req_pc EXCEPT ![r] = "waiting"]
            /\ UNCHANGED <<req_sid, forwards, first_sid, first_how>>
    /\ UNCHANGED <<cached_session_id, session_lock, req_status, opened, invalidations>>
    /\ UNCHANGED <<kernelVars, runVars, routeVars, fileVars, guardVars, jobVars, limitVars, sweepVars, captureVars>>

\* A lock taken without looking at the cache again.
no_recheck(cache) == {}

\* "Double-check after acquiring lock": what the holder of the lock sees.
recheck(cache) == cache

\* async with _session_lock: the request gets the lock; an id cached in the
\* meantime is returned and the lock released, else the upstream GET
\* /mcp/sse is started with the lock held.
ProxyLocked(r) ==
    /\ req_pc[r] = "waiting"
    /\ session_lock = {}
    /\ IF recheck(cached_session_id) # {}
       THEN /\ forward(r, cached_session_id, "rechecked")
            /\ UNCHANGED session_lock
       ELSE /\ session_lock' = {r}
            /\ req_pc' = [req_pc EXCEPT ![r] = "creating"]
            /\ UNCHANGED <<req_sid, forwards, first_sid, first_how>>
    /\ UNCHANGED <<cached_session_id, req_status, opened, invalidations>>
    /\ UNCHANGED <<kernelVars, runVars, routeVars, fileVars, guardVars, jobVars, limitVars, sweepVars, captureVars>>

\* The upstream GET ends. With the endpoint event read, the new id is cached
\* and returned; with an exception, or 4 KB read without an id, None is
\* returned and nothing is cached: a first call is answered 500, a retry
\* returns the response it already has. The lock is released either way.
ProxyCreated(r, ok) ==
    /\ req_pc[r] = "creating"
    /\ session_lock' = {}
    /\ IF ok
       THEN /\ opened' = opened + 1
            /\ cached_session_id' = {opened + 1}
            /\ forward(r, {opened + 1}, "created")
            /\ UNCHANGED req_status
       ELSE /\ req_pc' = [req_pc EXCEPT ![r] = "done"]
            /\ req_sid' = [req_sid EXCEPT ![r] = {}]
            /\ req_status' = IF forwards[r] = 0
                             THEN [req_status EXCEPT ![r] = 500]
                             ELSE req_status
            /\ UNCHANGED <<opened, cached_session_id, forwards, first_sid, first_how>>
    /\ UNCHANGED invalidations
    /\ UNCHANGED <<kernelVars, runVars, routeVars, fileVars, guardVars, jobVars, limitVars, sweepVars, captureVars>>

\* The upstream answers the POST. A 400 or 404 to the first POST
\* invalidates the cache and sends the request for a fresh id; any other
\* answer, and any answer to the retry, is returned to the client.
ProxyResponse(r, status) ==
    /\ req_pc[r] = "forwarding"
    /\ req_status' = [req_status EXCEPT ![r] = status]
    /\ IF session_expired(status) /\ forwards[r] = 1
       THEN /\ cached_session_id' = {}
            /\ invalidations' = invalidations + 1
            /\ req_pc' = [req_pc EXCEPT ![r] = "waiting"]
       ELSE /\ req_pc' = [req_pc EXCEPT ![r] = "done"]
            /\ UNCHANGED <<cached_session_id, invalidations>>
    /\ UNCHANGED <<session_lock, req_sid, forwards, first_sid, first_how, opened>>
    /\ UNCHANGED <<kernelVars, runVars, routeVars, fileVars, guardVars, jobVars, limitVars, sweepVars, captureVars>>

ProxyNext ==
    \E r \in ProxyRequests :
        \/ ProxyArrive(r)
        \/ ProxyLocked(r)
        \/ \E ok \in BOOLEAN : ProxyCreated(r, ok)
        \/ \E status \in UpstreamStatuses : ProxyResponse(r, status)

\* ------------------------------------------------------------ specification

\* The KernelManager's state-changing operations, with at most `limit` dicts
\* built.
KernelNext(limit) ==
    \/ Tick
    \/ \E t \in Threads, sid \in SessionIds : GocFind(t, sid, limit)
    \/ \E t \in Threads : GocCreate(t)
    \/ \E sid \in SessionIds, v \in Vars : UseContext(sid, v)
    \/ \E sid \in SessionIds : ResetSession(sid)

\* The KernelManager's queries.
InfoNext ==
    \/ \E sid \in SessionIds : GetSessionInfo(sid)
    \/ ListSessions

\* Execute calls.
ExecNext(limit) ==
    \/ \E t \in Threads, sid \in ExecSessionIds, code \in Codes, context \in SUBSET Vars :
            ExecStart(t, sid, code, context, limit)
    \/ \E t \in Threads : ExecFinish(t)

Next == KernelNext(MaxCalls) \/ ExecNext(MaxCalls)

\* The engine: KernelManager and SandboxExecutor called concurrently.
Spec == Init /\ [][Next]_vars

\* The KernelManager alone, with more calls.
SpecKernel == Init /\ [][KernelNext(MaxCtx)]_vars

\* The KernelManager with its queries.
SpecInfo == Init /\ [][KernelNext(MaxCalls) \/ InfoNext]_vars

\* One call of the open() that replaces the built-in in the sandbox.
SpecOpen == OpenInit /\ [][SafeOpen]_vars

\* The job manager right after construction.
JobsInit == Init /\ max_kernels = 1

\* The job manager: submissions, the worker pool and cancellation.
SpecJobs == JobsInit /\ [][JobsNext(MaxJobs)]_vars

\* The job manager with its read-only routes.
SpecJobsQuery == JobsInit /\ [][JobsNext(MaxPolledJobs) \/ JobsQueryNext]_vars

\* What one worker does next: take a job, end its run (by itself or at the
\* job's timeout), or let go of a cancelled job.
WorkerMoves(w) ==
    \/ WorkerDequeue(w)
    \/ \E ending \in Outcomes : WorkerFinish(w, ending)
    \/ WorkerTimeout(w)
    \/ WorkerInterrupted(w)

\* The pool under fair scheduling: a worker that can take a step
\* eventually takes one.
FairWorkers == \A w \in Workers : WF_vars(WorkerMoves(w))

SpecLimit == LimitInit /\ [][LimitNext]_vars

SpecSweep == LimitInit /\ [][SweepNext]_vars

SpecCapture == LimitInit /\ [][CaptureNext]_vars

SpecProxy == LimitInit /\ [][ProxyNext]_vars

SpecJobsFair == JobsInit /\ [][JobsNext(MaxJobs)]_vars /\ FairWorkers

\* One call of execute_with_memory_limit, for every kind of script.
SpecGuard == GuardInit /\ [][GuardNext]_vars

\* One call of SandboxExecutor.execute, for every submission and context.
SpecRun == RunInit /\ [][RunNext]_vars

\* ------------------------------------------------------------ properties

\* No resident session is idle for longer than the idle timeout.
NoneExpired ==
    \A i \in 1..Len(sessions) : ~expired(sessions[i], now, idle_timeout)

\* C1: with a capacity max_kernels >= 1, the number of resident sessions never
\* exceeds the capacity, whatever get_or_create, reset_session and idle-sweep
\* steps have run, and no session id is resident twice.
C1_CapacityNeverExceeded ==
    /\ max_kernels >= 1 => Len(sessions) <= max_kernels
    /\ Cardinality(Ids(sessions)) = Len(sessions)

\* A full table right after a get_or_create that had to evict.
C1_Witness ==
    /\ returned.op = "get_or_create" /\ returned.flag
    /\ max_kernels >= 2 /\ Len(sessions) = max_kernels

\* C2: a get_or_create for an absent id that finds exactly max_kernels
\* sessions, none of them expired, removes exactly one session, one whose
\* last_activity is the earliest; every other session keeps its namespace,
\* last_activity and execution_count, and the new session is stored.
C2_EvictsExactlyTheOldest ==
    [][\A t \in Threads :
        /\ \A sid \in SessionIds :
              (GocFind(t, sid, MaxCtx) /\ ~Has(sessions, sid) /\ NoneExpired)
                  => (sessions' = sessions /\ pc'[t] = "goc_create")
        /\ (GocCreate(t) /\ Len(sessions) = max_kernels) =>
              \E i \in 1..Len(sessions) :
                  /\ \A j \in 1..Len(sessions) :
                        sessions[i].last_activity <= sessions[j].last_activity
                  /\ Len(sessions') = Len(sessions)
                  /\ SubSeq(sessions', 1, Len(sessions) - 1) = RemoveAt(sessions, i)
                  /\ sessions'[Len(sessions')].session_id = call[t].session_id
                  /\ removed' = removed \cup {sessions[i].sandbox_globals}
                  /\ heap' = heap
      ]_vars

\* An eviction has just taken place at capacity >= 2: the new session is the
\* last entry and an older session with bindings is still resident.
C2_Witness ==
    /\ returned.op = "get_or_create" /\ returned.flag
    /\ max_kernels >= 2 /\ Len(sessions) = max_kernels
    /\ sessions[Len(sessions)].sandbox_globals = returned.globals
    /\ \E i \in 1..(Len(sessions) - 1) :
          /\ heap[sessions[i].sandbox_globals] # {}
          /\ sessions[i].last_activity < sessions[Len(sessions)].last_activity

\* C3: an Execute for a session whose previous Execute bound a name, with no
\* reset, eviction, expiry or other call in between, sees that name: reading
\* it succeeds.  (After a reset the name is not visible.)
C3_SessionVariablesPersist ==
    [][\A t \in Threads :
          ( /\ ExecFinish(t)
            /\ call[t].code.kind = "read"
            /\ call[t].code.var \in call[t].expect
            /\ Persisted(call[t].session_id) = call[t].expect )
          => ( /\ returned'.result.success
               /\ call[t].code.var \in returned'.result.stdout )
      ]_vars

\* C4: sessions are isolated.  No two resident sessions hold the same
\* namespace object, a namespace an Execute runs in belongs to no other
\* session, and every binding visible in a session's namespace was made by
\* that session.
C4_SessionsAreIsolated ==
    /\ \A i, j \in 1..Len(sessions) :
          i # j => sessions[i].sandbox_globals # sessions[j].sandbox_globals
    /\ \A i \in 1..Len(sessions) :
          \A b \in heap[sessions[i].sandbox_globals] : b.by = sessions[i].session_id
    /\ \A t \in Threads : pc[t] = "exec_running" =>
          /\ \A b \in heap[call[t].sandbox_globals] : b.by = call[t].session_id
          /\ \A u \in Threads :
                (pc[u] = "exec_running" /\ call[u].session_id # call[t].session_id)
                    => call[u].sandbox_globals # call[t].sandbox_globals
          /\ \A i \in 1..Len(sessions) :
                sessions[i].session_id # call[t].session_id
                    => sessions[i].sandbox_globals # call[t].sandbox_globals

\* A resident session with bindings while an Execute of another session runs
\* in a namespace with bindings.
C4_Witness ==
    \E t \in Threads, i \in 1..Len(sessions) :
        /\ pc[t] = "exec_running"
        /\ call[t].session_id # sessions[i].session_id
        /\ heap[call[t].sandbox_globals] # {}
        /\ heap[sessions[i].sandbox_globals] # {}

\* C5: get_or_create for a resident, unexpired session returns the stored
\* namespace (the freshly supplied one is ignored and stored nowhere), adds
\* one to execution_count, sets last_activity to the current time, and adds
\* no session and removes no unexpired session.
C5_HitReturnsStoredContext ==
    [][\A t \in Threads, sid \in SessionIds :
          ( /\ GocFind(t, sid, MaxCtx)
            /\ Has(sessions, sid)
            /\ ~expired(Get(sessions, sid), now, idle_timeout) )
          => LET old == Get(sessions, sid) IN
             /\ returned'.op = "get_or_create"
             /\ returned'.globals = old.sandbox_globals
             /\ returned'.globals # nextCtx
             /\ nextCtx \notin Ctxs(sessions')
             /\ Has(sessions', sid)
             /\ Get(sessions', sid) = [old EXCEPT !.execution_count = @ + 1,
                                                   !.last_activity = now]
             /\ heap' = heap
             /\ Ids(sessions') \subseteq Ids(sessions)
             /\ \A i \in 1..Len(sessions) :
                   (sessions[i].session_id # sid
                        /\ ~expired(sessions[i], now, idle_timeout))
                   => sessions[i] \in Range(sessions')
             /\ pc'[t] = "idle" /\ lock' = None
      ]_vars

\* A session that has just been found again: it has bindings, its count is
\* past 1 and its namespace is what the call returned.
C5_Witness ==
    /\ returned.op = "get_or_create"
    /\ \E i \in 1..Len(sessions) :
          /\ sessions[i].execution_count >= 2
          /\ sessions[i].sandbox_globals = returned.globals
          /\ sessions[i].last_activity = now
          /\ heap[sessions[i].sandbox_globals] # {}

\* C6: find-or-evict-or-create is atomic.  A get_or_create enters its critical
\* section only while no other call is inside it; a call that creates a
\* session for an id it did not find still finds the id absent when it stores
\* it, so two concurrent calls for one absent id leave exactly one entry for
\* the id, and every call returns the namespace that entry holds.
C6_FindOrCreateIsAtomic ==
    [][ /\ \A t \in Threads, sid \in SessionIds :
              GocFind(t, sid, MaxCtx) =>
                  /\ lock = None
                  /\ pc'[t] = "idle" =>
                        /\ Has(sessions', sid)
                        /\ returned'.globals = Get(sessions', sid).sandbox_globals
        /\ \A t \in Threads :
              GocCreate(t) =>
                  LET sid == call[t].session_id IN
                  /\ lock = t
                  /\ \A u \in Threads \ {t} : pc[u] # "goc_create"
                  /\ ~Has(sessions, sid)
                  /\ Cardinality({i \in 1..Len(sessions') :
                                      sessions'[i].session_id = sid}) = 1
                  /\ returned'.globals = Get(sessions', sid).sandbox_globals
      ]_vars

\* One caller is between not finding the id and storing the session while
\* the other caller is free to ask for the same id.
C6_Witness ==
    \E t \in Threads, u \in Threads :
        /\ t # u
        /\ pc[t] = "goc_create" /\ lock = t
        /\ ~Has(sessions, call[t].session_id)
        /\ pc[u] = "idle" /\ nextCtx <= MaxCtx

\* C7: two overlapping Execute calls for one session id never run at the
\* same time.
C7_ExecutionsAreSerialized ==
    \A t \in Threads, u \in Threads :
        (t # u /\ pc[t] = "exec_running" /\ pc[u] = "exec_running")
            => call[t].session_id # call[u].session_id

\* C8: the kernel-table lock is held only inside get_or_create's bookkeeping,
\* never by a thread that runs user code; while an execution is in progress
\* and no bookkeeping is under way, every table operation of an idle caller
\* can proceed.
C8_LockOnlyDuringBookkeeping ==
    /\ lock # None => pc[lock] = "goc_create"
    /\ \A t \in Threads : pc[t] = "exec_running" => lock # t
    /\ \A t \in Threads, u \in Threads :
          (pc[t] = "exec_running" /\ pc[u] = "idle" /\ lock = None)
              => \A sid \in SessionIds :
                    /\ ENABLED ResetSession(sid)
                    /\ ENABLED GetSessionInfo(sid)
                    /\ ENABLED ListSessions
                    /\ nextCtx <= MaxCalls => ENABLED GocFind(u, sid, MaxCalls)

\* A get_or_create for another session is in its critical section while an
\* execution is in progress.
C8_Witness ==
    \E t \in Threads, u \in Threads :
        /\ pc[t] = "exec_running"
        /\ pc[u] = "goc_create" /\ lock = u
        /\ call[u].session_id # call[t].session_id

\* C9: reset_session returns TRUE and removes the session when the id is
\* resident, and returns FALSE and leaves the table as it is when it is not;
\* it never touches another session, and after it the id is absent, so a
\* second reset right after it returns FALSE.
C9_ResetRemovesOnce ==
    [][\A sid \in SessionIds :
          ResetSession(sid) =>
              /\ returned'.op = "reset_session"
              /\ Has(sessions, sid) =>
                    /\ returned'.flag
                    /\ sessions' = SelectSeq(sessions, LAMBDA s : s.session_id # sid)
                    /\ Len(sessions') = Len(sessions) - 1
              /\ ~Has(sessions, sid) =>
                    /\ ~returned'.flag
                    /\ sessions' = sessions
              /\ ~Has(sessions', sid)
              /\ ~reset_result(sessions', sid)
              /\ heap' = heap
      ]_vars

\* A reset has just removed a session with bindings and left another resident.
C9_Witness ==
    /\ returned.op = "reset_session" /\ returned.flag
    /\ Len(sessions) >= 1
    /\ \E c \in removed : heap[c] # {}

\* C10: after a session was removed (reset, expiry or eviction), the
\* get_or_create that creates it again stores the freshly supplied namespace,
\* which holds no binding and was never stored before, with execution_count 1;
\* no removed namespace is resident or returned again.
C10_RemovedContextNeverReturns ==
    [][ /\ removed \cap Ctxs(sessions) = {}
        /\ \A t \in Threads :
              GocCreate(t) =>
                  LET new == Get(sessions', call[t].session_id) IN
                  /\ new.sandbox_globals = call[t].sandbox_globals
                  /\ new.sandbox_globals \notin removed'
                  /\ new.sandbox_globals \notin Ctxs(sessions)
                  /\ heap'[new.sandbox_globals] = {}
                  /\ new.execution_count = 1
                  /\ new.last_activity = now
                  /\ returned'.globals = new.sandbox_globals
        /\ \A t \in Threads, sid \in SessionIds :
              GocFind(t, sid, MaxCtx) /\ pc'[t] = "idle"
                  => returned'.globals \notin removed'
      ]_vars

\* A session that had bindings was removed and has been created again: its
\* entry is new (count 1, empty namespace) and the old namespace is not it.
C10_Witness ==
    /\ returned.op = "get_or_create"
    /\ \E i \in 1..Len(sessions), c \in removed :
          /\ heap[c] # {}
          /\ \A b \in heap[c] : b.by = sessions[i].session_id
          /\ sessions[i].execution_count = 1
          /\ heap[sessions[i].sandbox_globals] = {}
          /\ sessions[i].sandbox_globals = returned.globals

\* C11: every get_or_create sweeps before it looks up.  After the sweep no
\* session that is expired at the sweep's reading of the clock is resident,
\* and the sweep removes nothing else; a call for an id whose own entry is
\* expired does not find it: the entry's namespace is removed and the call
\* goes on to create, storing and returning the freshly supplied namespace;
\* the creating part of the call brings no removed session back.
C11_SweepBeforeLookup ==
    [][ /\ \A t \in Threads, sid \in SessionIds :
              GocFind(t, sid, MaxCtx) =>
                  /\ \A i \in 1..Len(sessions') :
                        ~(now - sessions'[i].last_activity > idle_timeout)
                  /\ \A i \in 1..Len(sessions) :
                        (now - sessions[i].last_activity > idle_timeout)
                            <=> sessions[i].session_id \notin Ids(sessions')
                  /\ ( Has(sessions, sid)
                       /\ (now - Get(sessions, sid).last_activity > idle_timeout) )
                     => /\ pc'[t] = "goc_create"
                        /\ call'[t].session_id = sid
                        /\ call'[t].sandbox_globals = nextCtx
                        /\ Get(sessions, sid).sandbox_globals \in removed'
                        /\ Get(sessions, sid).sandbox_globals # nextCtx
                        /\ returned' = returned
        /\ \A t \in Threads :
              GocCreate(t) =>
                  /\ returned'.globals = call[t].sandbox_globals
                  /\ returned'.globals \notin removed'
                  /\ \A i \in 1..Len(sessions') :
                        sessions'[i].session_id # call[t].session_id
                            => sessions'[i] \in Range(sessions)
      ]_vars

\* A call is past its sweep, which removed the expired entry (with bindings)
\* of the very id the call asks for: the namespace the latest get_or_create
\* returned is no longer stored.
C11_Witness ==
    \E t \in Threads :
        /\ pc[t] = "goc_create"
        /\ returned.op = "get_or_create"
        /\ returned.globals \in removed
        /\ heap[returned.globals] # {}
        /\ \A b \in heap[returned.globals] : b.by = call[t].session_id

\* C12: get_session_info and list_sessions are read-only.  Neither adds,
\* removes or touches a session: the table (every session's namespace,
\* last_activity and execution_count), the namespaces' bindings and the lock
\* are as before; get_session_info says whether the id is resident, and for
\* an absent id it returns no info and the id stays absent.
C12_InfoIsReadOnly ==
    [][ /\ \A sid \in SessionIds :
              GetSessionInfo(sid) =>
                  /\ sessions' = sessions
                  /\ heap' = heap /\ removed' = removed /\ lock' = lock
                  /\ returned'.op = "get_session_info"
                  /\ returned'.flag <=> sid \in Ids(sessions)
                  /\ sid \notin Ids(sessions) => sid \notin Ids(sessions')
        /\ ListSessions =>
              /\ sessions' = sessions
              /\ heap' = heap /\ removed' = removed /\ lock' = lock
              /\ returned'.op = "list_sessions"
      ]_vars

\* get_session_info has just found a session that was used before (bindings,
\* touched at an earlier time) while another id is absent.
C12_Witness ==
    /\ returned.op = "get_session_info" /\ returned.flag
    /\ \E i \in 1..Len(sessions) :
          /\ heap[sessions[i].sandbox_globals] # {}
          /\ sessions[i].last_activity < now
    /\ Ids(sessions) # SessionIds

\* The lines of a submission that import a module outside the allow-list:
\* neither pre-loaded in the namespace nor loadable by _lazy_import.
BlockedImports(lines, globals) ==
    {i \in 1..Len(lines) :
        /\ IsImport(strip(lines[i]))
        /\ ~lazy_import(module_of(strip(lines[i])))
        /\ module_of(strip(lines[i])) \notin globals.names}

\* The error message names the module.
Mentions(msg, module) == module = "os" /\ msg = "name 'os' is not defined"

\* C13: when the run of a submission that imports a module outside the
\* allow-list has ended, Execute returns success = false with an error that
\* names the blocked module.
C13_BlockedImportIsRefused ==
    [][\A i \in BlockedImports(submission, sandbox_globals) :
          RunComplete =>
             /\ rpc' = "returned"
             /\ ~result'.success
             /\ Mentions(result'.error_message, module_of(strip(submission[i])))
      ]_vars

\* The submission as the caller wrote it, no line replaced.
Source(lines) == [i \in 1..Len(lines) |-> Passed(lines[i])]

\* C14: of a submission that is valid as written and imports a disallowed
\* module, only the import line is elided: every other line reaches
\* execution unchanged and in order, and when the run has ended the binding
\* made by a first line `x = 1`, which precedes every use of the module, is
\* in the namespace.
C14_OnlyTheImportIsElided ==
    [][( /\ RunComplete
         /\ compiles(Source(submission))
         /\ BlockedImports(submission, sandbox_globals) # {}
         /\ submission[1] = "x = 1" )
       => ( /\ \A i \in 1..Len(submission) :
                  i \notin BlockedImports(submission, sandbox_globals)
                  /\ ~IsImport(strip(submission[i]))
                     => processed[i] = Passed(submission[i])
            /\ \A i \in BlockedImports(submission, sandbox_globals) :
                  processed[i].note = "BLOCKED"
            /\ "x" \in sandbox_globals.names )
      ]_vars

\* The run handed to the pool has not ended.
Unfinished == worker.status \in {"compiling", "running"}

C16_SuccessXorError ==
    rpc = "returned" =>
        \/ result.success /\ result.error_message = None
        \/ ~result.success /\ result.error_message \notin {None, ""}

\* C17: Execute never raises: whatever fails (creating the session
\* directory, building the sandbox, preprocessing, the code itself, memory,
\* the deadline), the call ends by returning a result, with success = false
\* when something failed.
C17_ExecuteNeverRaises ==
    /\ rpc # "raised"
    /\ escaped = None
    /\ rpc = "returned" =>
          (result.success <=> (worker.status = "done" /\ result.error_message = None))

\* C18: in the context handed to user code, after the caller's variables
\* have been injected, none of eval, exec, compile, __import__, globals,
\* locals, exit, quit, breakpoint, input is bound in the builtins.
C18_NoDeniedBuiltin ==
    worker.status # "none" =>
        \A b \in sandbox_globals.builtins : b.name \notin Denied

\* path is dir or a descendant of it.
Inside(path, dir) == Len(dir) <= Len(path) /\ SubSeq(path, 1, Len(dir)) = dir

\* C19: a path opened through the sandbox's open() resolves to the session
\* directory or a descendant; a call whose resolved path lies elsewhere
\* ends with PermissionError and creates no file and no directory.
C19_OpenStaysInside ==
    outcome # None =>
        LET resolved == resolve(requested_path(request)) IN
        /\ outcome = "opened" => Inside(resolved, request.session_dir)
        /\ ~Inside(resolved, request.session_dir) =>
              /\ outcome = "PermissionError"
              /\ dirs = InitialDirs(request.session_dir)
              /\ files = InitialFiles

\* C20: the stdout text of every response, on every route, is at most the
\* maximum output size long.
C20_OutputIsCapped ==
    rpc = "responded" => len(response.stdout) <= MAX_OUTPUT_SIZE

C22_LaunchFailureIsReturned ==
    /\ guard_pc # "raised"
    /\ guard_escaped = None
    /\ (guard_pc = "returned" /\ proc.state = "none") =>
          /\ ~guard_result.success
          /\ ~guard_result.timed_out
          /\ ~guard_result.oom_killed

\* C23: when the subprocess was still running as the timeout elapsed, the
\* call returns timed_out = true with success = false; and the subprocess is
\* never running once the call has returned.
C23_TimeoutKillsAndReports ==
    guard_pc = "returned" =>
        /\ proc.state # "running"
        /\ deadline_alive => (guard_result.timed_out /\ ~guard_result.success)

\* C24: a returned dict with oom_killed = true has success = false.
C24_OomIsNeverSuccess ==
    guard_pc = "returned" => (guard_result.oom_killed => ~guard_result.success)

\* C25: a job's status only moves pending -> running -> {completed, failed,
\* timeout, cancelled} or pending -> cancelled, so no status is revisited;
\* and once it is terminal no later step (a worker's completion, a timeout,
\* a cancel) changes its status or its result fields.
C25_StatusOnlyAdvances ==
    [][\A j \in 1..Len(jobs) :
          /\ j \in 1..Len(jobs')
          /\ jobs'[j].status # jobs[j].status
                => \/ jobs[j].status = "pending"
                      /\ jobs'[j].status \in {"running", "cancelled"}
                   \/ jobs[j].status = "running" /\ jobs'[j].status \in Terminal
          /\ jobs[j].status \in Terminal => jobs'[j] = jobs[j]]_vars

\* A job was cancelled while running and its worker has let go of it; another
\* job has ended by itself.
C25_Witness ==
    /\ \E j \in 1..Len(jobs) :
          /\ jobs[j].status = "cancelled"
          /\ jobs[j].started
          /\ \A w \in Workers : workers[w] # j
    /\ \E j \in 1..Len(jobs) : jobs[j].status \in {"completed", "failed", "timeout"}

\* C26: at every moment the number of running jobs is at most
\* MAX_CONCURRENT_JOBS, each running job being held by a worker of its own;
\* the jobs beyond that number wait in status pending.
C26_RunningWithinPool ==
    LET running == {j \in 1..Len(jobs) : jobs[j].status = "running"} IN
    /\ Cardinality(running) <= MAX_CONCURRENT_JOBS
    /\ \A j \in running : \E w \in Workers : workers[w] = j

\* Every worker is running a job and one more job is submitted: it is pending.
C26_Witness ==
    /\ Cardinality({j \in 1..Len(jobs) : jobs[j].status = "running"})
          = MAX_CONCURRENT_JOBS
    /\ \E j \in 1..Len(jobs) : jobs[j].status = "pending"

\* C27: submit creates the job in status pending and returns its id without
\* running user code on the submitting call: the step adds one pending,
\* unstarted record with no result, queues its id, answers with that id and
\* "pending", and leaves the workers and every other job as they were; this
\* also when every worker is busy.
C27_SubmitOnlyQueues ==
    [][(\E code \in JobCodes : SubmitJob(code, MaxJobs)) =>
          LET id == Len(jobs) + 1 IN
          /\ Len(jobs') = id
          /\ \A j \in 1..Len(jobs) : jobs'[j] = jobs[j]
          /\ jobs'[id].status = "pending"
          /\ ~jobs'[id].started
          /\ ~jobs'[id].completed
          /\ jobs'[id].result = None
          /\ queue' = Append(queue, id)
          /\ workers' = workers
          /\ job_response'.http = "200"
          /\ job_response'.job_id = id
          /\ job_response'.status = "pending"]_vars

\* A job was submitted while every worker was busy: it is the last record,
\* pending, at the end of the queue, and the answer carries its id.
C27_Witness ==
    /\ \A w \in Workers : workers[w] # NoJob /\ jobs[workers[w]].status = "running"
    /\ job_response.op = "submit"
    /\ job_response.http = "200"
    /\ job_response.job_id = Len(jobs)
    /\ jobs[Len(jobs)].status = "pending"
    /\ queue # <<>>
    /\ queue[Len(queue)] = Len(jobs)

\* C28: under fair scheduling of the workers every submitted job eventually
\* reaches a terminal status, the job's timeout ending a run that does not
\* end by itself: again and again every job submitted so far is in a
\* terminal status, so each job, whenever it was submitted, is terminal at
\* some later moment.
C28_EveryJobEnds ==
    []<>(\A j \in 1..Len(jobs) : jobs[j].status \in Terminal)

\* A job whose code never ends, submitted while every worker was busy, has
\* been ended by its timeout.
C28_Witness ==
    \E j \in 1..Len(jobs) :
        /\ j > MAX_CONCURRENT_JOBS
        /\ jobs[j].code = "loop"
        /\ jobs[j].status = "timeout"

C30_ResultIsThreeWay ==
    [][\A job_id \in PolledJobIds :
          GetJobResult(job_id) =>
             /\ job_response'.http =
                   IF ~Known(job_id) THEN "404"
                   ELSE IF jobs[job_id].status \in {"pending", "running"} THEN "202"
                   ELSE "200"
             /\ job_response'.http = "200" =>
                   /\ jobs[job_id].status \in Terminal
                   /\ job_response'.status = jobs[job_id].status
                   /\ job_response'.result = jobs[job_id].result
             /\ job_response'.http # "200" => job_response'.result = None
             /\ <<jobs, queue, workers>>' = <<jobs, queue, workers>>]_vars

\* The result of a running job was asked for and the answer was "not ready";
\* another job is terminal.
C30_Witness ==
    /\ job_response.op = "result"
    /\ job_response.http = "202"
    /\ Known(job_response.job_id)
    /\ jobs[job_response.job_id].status = "running"
    /\ \E j \in 1..Len(jobs) : jobs[j].status \in Terminal

\* C37: a returned dict never has timed_out and oom_killed both true: a
\* subprocess that the host killed at the timeout, with no memory error in
\* its stderr, is reported with oom_killed = false.
C37_TimeoutIsNotOom ==
    guard_pc = "returned" => ~(guard_result.timed_out /\ guard_result.oom_killed)

\* C38: the idle sweep runs before the capacity check.  A get_or_create for
\* an absent id that finds the table at capacity with an expired session in
\* it sweeps first: every expired session is gone and every other session is
\* kept before the capacity is looked at; the table is then below capacity,
\* nothing touches it while the call holds the lock, and the creating part
\* evicts nothing: every session the sweep left is still stored, unchanged,
\* and the new session is added.
C38_SweepSparesTheLive ==
    [][\A t \in Threads :
        /\ \A sid \in SessionIds :
              ( /\ GocFind(t, sid, MaxCtx)
                /\ ~Has(sessions, sid)
                /\ Len(sessions) = max_kernels
                /\ ~NoneExpired )
              => /\ pc'[t] = "goc_create"
                 /\ Len(sessions') < max_kernels
                 /\ \A i \in 1..Len(sessions) :
                       ~expired(sessions[i], now, idle_timeout)
                           <=> sessions[i] \in Range(sessions')
        /\ (pc[t] = "goc_create" /\ ~GocCreate(t)) => sessions' = sessions
        /\ (GocCreate(t) /\ Len(sessions) < max_kernels)
              => /\ ~returned'.flag
                 /\ sessions' = Append(sessions, sessions'[Len(sessions')])
                 /\ sessions'[Len(sessions')].session_id = call[t].session_id
      ]_vars

\* A call for an absent id found a full table of two with one expired
\* session: the expired one is gone, the live one is still stored beside the
\* new session, and the call evicted nothing.
C38_Witness ==
    /\ max_kernels = 2
    /\ returned.op = "get_or_create"
    /\ ~returned.flag
    /\ Len(sessions) = 2
    /\ sessions[2].sandbox_globals = returned.globals
    /\ sessions[1].last_activity < sessions[2].last_activity
    /\ ~expired(sessions[1], now, idle_timeout)
    /\ Cardinality(removed) = 1
    /\ removed \cap Ctxs(sessions) = {}
    /\ nextCtx = 4

\* C34: after execute has returned its timeout result the abandoned run is
\* not stopped and nothing is rolled back.  The timeout leaves the pool
\* thread, the namespace and the captured output as they are; from then on
\* a thread that was running can take its next step whenever its statement
\* ends, and every later step only adds to the namespace and to the captured
\* output, none of which reaches the result already returned.
C34_TimeoutAbandonsOnly ==
    /\ []( (/\ rpc \in {"returned", "responded"}
         /\ result.error_message = "Execution timed out after 30 seconds")
           => /\ worker.status # "stopped"
              /\ result.stdout \subseteq stdout_capture
              /\ (worker.status = "running"
                    /\ ~Diverges(Statements(processed)[worker.next].text))
                      => ENABLED WorkerStep )
    /\ [][ /\ RunTimeout =>
                 /\ worker' = worker
                 /\ sandbox_globals' = sandbox_globals
                 /\ stdout_capture' = stdout_capture
           /\ (/\ rpc \in {"returned", "responded"}
              /\ result.error_message = "Execution timed out after 30 seconds")
                 => /\ sandbox_globals.names \subseteq sandbox_globals'.names
                    /\ stdout_capture \subseteq stdout_capture'
                    /\ result' = result
         ]_vars

\* execute returned its timeout result and afterwards the thread ran on: it
\* bound x and printed, and the output is not in the returned result.
C34_Witness ==
    /\ rpc \in {"returned", "responded"}
    /\ result.error_message = "Execution timed out after 30 seconds"
    /\ ~result.success
    /\ "x" \in sandbox_globals.names
    /\ "x" \notin injected
    /\ result.stdout = {}
    /\ stdout_capture # {}
    /\ worker.status = "done"

C32_SyncTimeoutIsCapped ==
    limit_pc = "executing" =>
        /\ wait_timeout.kind = "int"
        /\ wait_timeout.value <= 60
        /\ wait_timeout.value =
              IF requested.kind # "int" \/ requested.value = 0 THEN 30
              ELSE IF requested.value <= 60 THEN requested.value
              ELSE 60

\* A request asked for 61 seconds and the executor waits with 60.
C32_Witness ==
    /\ limit_pc = "executing"
    /\ requested = int(61)
    /\ wait_timeout = int(60)

\* C33: a job's terminal status tells how its execution ended.  A run that
\* reaches the end of the code leaves the job completed with the output, a
\* run that raises leaves it failed with the fault message, the expiry of
\* the job's deadline leaves it timeout, a cancel that succeeds leaves it
\* cancelled; and a job gets each of these statuses in no other way.
C33_StatusTellsTheOutcome ==
    [][ /\ \A w \in Workers :
              LET j == workers[w] IN
              /\ WorkerFinish(w, "completed") =>
                    jobs'[j].status = "completed" /\ jobs'[j].result = "output"
              /\ WorkerFinish(w, "failed") =>
                    jobs'[j].status = "failed" /\ jobs'[j].result = "error"
              /\ WorkerTimeout(w) => jobs'[j].status = "timeout"
        /\ \A j \in 1..Len(jobs) :
              jobs'[j].status # jobs[j].status =>
                 /\ jobs'[j].status \in {"completed", "failed"} =>
                       /\ jobs[j].code # "loop"
                       /\ \E w \in Workers :
                             workers[w] = j /\ WorkerFinish(w, jobs'[j].status)
                 /\ jobs'[j].status = "timeout" =>
                       \E w \in Workers : workers[w] = j /\ WorkerTimeout(w)
                 /\ jobs'[j].status = "cancelled" =>
                       CancelJob(j) /\ job_response'.http = "200"
      ]_vars

\* One job failed with its fault message, one ran into its deadline, one
\* was cancelled.
C33_Witness ==
    /\ \E j \in 1..Len(jobs) : jobs[j].status = "failed" /\ jobs[j].result = "error"
    /\ \E j \in 1..Len(jobs) : jobs[j].status = "timeout" /\ jobs[j].code = "loop"
    /\ \E j \in 1..Len(jobs) : jobs[j].status = "cancelled"

\* C31: a sweep that is done leaves exactly the records that are not older
\* than the retention window, whatever their status; a sweep that fails
\* leaves the loop asleep for its next round; and a running loop stops only
\* by the cancellation at shutdown.
C31_SweepAndLoop ==
    [][/\ CleanupSweep(TRUE) =>
            /\ \A i \in 1..Len(records) :
                  older(records[i], now) <=> records[i] \notin Range(records')
            /\ Range(records') \subseteq Range(records)
            /\ cleanup_pc' = "sleeping"
       /\ CleanupSweep(FALSE) => cleanup_pc' = "sleeping" /\ records' = records
       /\ (cleanup_pc \in {"sleeping", "sweeping"} /\ cleanup_pc' = "stopped")
            => LifespanShutdown]_vars

\* The loop has logged a failed sweep, and a later sweep has deleted the old
\* record 1, and kept the young record 2.
C31_Witness ==
    /\ cleanup_pc = "sleeping"
    /\ cleanup_logged
    /\ submitted = 2
    /\ Len(records) = 1
    /\ records[1].id = 2
    /\ now - records[1].submitted_at <= JOB_CLEANUP_HOURS

\* The writes the code of execution e made to stream s, in order.
OwnOutput(e, s) == [k \in 1..written[e][s] |-> [by |-> e, n |-> k]]

\* C36: the result of each execution that returned holds, for stdout and for
\* stderr, exactly the writes of its own code, and once both executions have
\* returned the process has the streams it had before.
C36_CaptureIsOwnOutput ==
    /\ \A e \in Executions :
          cap_pc[e] = "returned" =>
              \A s \in Streams : cap_result[e][s] = OwnOutput(e, s)
    /\ (\A e \in Executions : cap_pc[e] = "returned")
          => \A s \in Streams : sys_streams[s] = "console"

====
